---- MODULE Spec2Model ----
(***************************************************************************)
(* A model of the per-player proxy engine of Crust: the connection handle  *)
(* and its writer task (src/server/proxy_handler.rs, src/server/backend.rs)*)
(* and the server-switch orchestrator (src/server/mod.rs).                 *)
(*                                                                         *)
(* WriterSpec  one connection handle, its writer task and arbitrary tasks  *)
(*             calling the handle's operations.                            *)
(* Spec        one player from registration to cleanup: handle(), the      *)
(*             client's writer and reader, its backend connections with    *)
(*             their tasks and exit hooks, switch tasks, /send commands.   *)
(* FairSpec    Spec with every spawned task scheduled fairly.              *)
(* ReaderSpec  one reader task of an established connection, frame by      *)
(*             frame: read timeout, packet limit, registry lookup, forward.*)
(* LoginSpec   one call of handle_login (src/server/initial_handler.rs),   *)
(*             packet by packet.                                           *)
(* StatusSpec  one call of handle_status, packet by packet.                *)
(* RegistrySpec  one look-up in the packet registry.                       *)
(* CodecSpec   one payload through compress and decompress.                *)
(* ThrottleSpec  the accept loop of run_server, connection by connection.  *)
(* BundleSpec  Spec with backends that open bundles.                       *)
(* CommandSpec  one UnsignedClientCommand through the client handler.      *)
(* OnlineSpec  the registration and the cleanup of several logins on the   *)
(*             lookup maps of ProxyServer.                                 *)
(***************************************************************************)
EXTENDS Integers, Sequences, FiniteSets, TLC

\* ---------------------------------------------------------------- bounds
\* commands queued on one handle in a behaviour of WriterSpec
MaxCmds == 4
\* commands held at once by the bounded channel of the model
MaxChan == 3
\* backend connections opened for the player in a behaviour of Spec
MaxConns == 2
\* switch tasks started for the player in a behaviour of Spec
MaxSwitches == 2
\* inputs of the client, the backends and command tasks in a behaviour of Spec
MaxEvents == 3
\* bursts of frames and waits met by one reader in a behaviour of ReaderSpec
MaxReads == 4
\* connections accepted in a behaviour of ThrottleSpec
MaxAccepts == 4
\* the largest time a client puts into a ping in a behaviour of StatusSpec
MaxPing == 3
\* longest command line, in characters
MaxLine == 4
\* logins that reach the registration in handle()
MaxLogins == 3

\* ------------------------------------------------------- program constants
\* protocol versions 1.20.2 and 1.20.5 (version.rs:112, 114)
R1_20_2 == 764
R1_20_5 == 766
\* the other protocol versions the packet registry names (version.rs:70-118)
R1_8 == 47
R1_9 == 107
R1_12 == 335
R1_12_1 == 338
R1_13 == 393
R1_14 == 477
R1_15 == 573
R1_16 == 735
R1_16_2 == 751
R1_17 == 755
R1_19 == 759
R1_19_1 == 760
R1_19_3 == 761
R1_19_4 == 762
R1_20_3 == 765
R1_21 == 767
R1_21_2 == 768
R1_21_4 == 769
\* the client reader's packet limit and its window in ms (proxy_handler.rs:373, 375)
PacketLimit == 2000
RateWindow == 1000
\* PROTOCOL_READ_TIMEOUT in ms (packets.rs:13)
ReadTimeout == 30000
\* the default connection_throttle_time in ms (mod.rs:85)
ThrottleTime == 5000
\* the limit of the SizeLimitedReader in decompress, 8 * 1024 * 1024 bytes
\* (compression.rs:29)
SizeLimit == 8388608

\* the default ProxyConfig::servers (mod.rs:94-97) and priorities that name the
\* default server after "void", a label the server list does not hold (any more).
Servers == {"lobby"}
Priorities == <<"void", "lobby">>
Labels == Servers \cup {"void"}

\* ------------------------------------------------- connection handle state
VARIABLES
    wKind,      \* "client": writer of proxy_handler::handle, "backend": writer of begin_proxying
    wChan,      \* the mpsc channel of PacketSending commands
    wDrop,      \* drop_redundant, local to the client writer
    wBundle,    \* in_bundle, local to the client writer
    wTask,      \* the writer task: "run", "exited" (break / abort), "panicked"
    wAbort,     \* write_task.abort() was called and the task is not yet cancelled
    wClosed,    \* ConnectionHandle::closed
    wWire,      \* frames written to the socket, each with the number of its command
    wLog,       \* every command ever queued, in queueing order (history)
    wRecv,      \* number of commands the writer has received (history)
    wSyncOk,    \* numbers of the Sync commands whose sync() returned Ok
    wSyncErr    \* numbers of the Sync commands whose sync() returned Err

wvars == <<wKind, wChan, wDrop, wBundle, wTask, wAbort, wClosed, wWire, wLog,
           wRecv, wSyncOk, wSyncErr>>

\* --------------------------------------------------------- player engine state
VARIABLES
    client_handle,  \* the client half: ConnectionHandle, its writer and reader tasks;
                    \* acked: the client has answered the StartConfiguration of the
                    \* last goto_config (history); packet_limit: the argument the
                    \* installed reader task was spawned with
    player,         \* ProxiedPlayer and its PlayerSyncData
    proxy,          \* ProxyServer: player_by_name, player_by_uuid, player_count
    hnd,            \* the task running proxy_handler::handle for the player
    cleanup,        \* the cleanup task spawned at proxy_handler.rs:295
    conns,          \* backend connections: EstablishedBackend, then handle, tasks, exit hook
    switches,       \* the tasks spawned by ProxiedPlayer::switch_server
    events          \* how many inputs the client, the backends and commands have made

pvars == <<client_handle, player, proxy, hnd, cleanup, conns, switches, events>>

\* ------------------------------------------------------------- reader task state
VARIABLES
    reader,      \* one reader task: its locals, the closed flags of its handle and partner
    rIdle,       \* milliseconds the pending read_and_decode_packet has waited
    rPartnerUp,  \* the partner's writer task holds the receiver of its channel
    rInputs      \* how many inputs the peer and the clock have made

rvars == <<reader, rIdle, rPartnerUp, rInputs>>

\* ------------------------------------------------------------------ login state
VARIABLES
    login       \* one call of handle_login: its locals, the config it reads, its result

\* ----------------------------------------------------------------- status state
VARIABLES
    status      \* one call of handle_status: its locals, what it read and wrote

\* --------------------------------------------------------------- registry state
VARIABLES
    lookup      \* one look-up in the packet registry: the key and what was found

\* ------------------------------------------------------------------ codec state
VARIABLES
    codec       \* one payload on its way through compress and decompress

\* --------------------------------------------------------------- listener state
VARIABLES
    throttle    \* the accept loop of run_server: its locals and what it did last

\* ---------------------------------------------------------------- command state
VARIABLES
    command     \* one UnsignedClientCommand on its way through the client handler

\* ------------------------------------------------------------ lookup map state
VARIABLES
    online      \* player_by_name, player_by_uuid, player_count and the logins using them

lvars == <<login, status, lookup, codec, throttle, command, online>>

vars == <<wvars, pvars, rvars, lvars>>

\* PacketSending (proxy_handler.rs:415): the commands of the channel
Packet(bypass)      == [type |-> "Packet", bypass |-> bypass, drop |-> FALSE]
SyncCmd             == [type |-> "Sync", bypass |-> FALSE, drop |-> FALSE]
DropRedundant(drop) == [type |-> "DropRedundant", bypass |-> FALSE, drop |-> drop]
BundleReceived      == [type |-> "BundleReceived", bypass |-> FALSE, drop |-> FALSE]
StartConfig         == [type |-> "StartConfig", bypass |-> FALSE, drop |-> FALSE]
StartGame           == [type |-> "StartGame", bypass |-> FALSE, drop |-> FALSE]

PacketSending ==
    {Packet(b) : b \in BOOLEAN} \cup {SyncCmd, BundleReceived, StartConfig, StartGame}
        \cup {DropRedundant(b) : b \in BOOLEAN}

\* The frames a command makes the client writer write, in order, when no write fails.
ClientFrames(ev, inBundle) ==
    CASE ev.type = "Packet"         -> <<"packet">>
      [] ev.type = "BundleReceived" -> <<"bundle">>
      [] ev.type = "StartConfig"    ->
            (IF inBundle THEN <<"bundle">> ELSE <<>>) \o <<"StartConfiguration">>
      [] ev.type = "StartGame"      -> <<"FinishConfiguration">>
      [] OTHER                      -> <<>>

\* A non-bypass packet met while the drop gate is set ends the loop (break).
DropGateBreaks(ev, drop) == ev.type = "Packet" /\ drop /\ ~ev.bypass

\* The loop as it would be with the gated packet skipped and the loop continued.
ClientWriterHandleSkips(ev, drop, inBundle, fail) ==
    LET gated  == DropGateBreaks(ev, drop)
        frames == IF gated THEN <<>> ELSE ClientFrames(ev, inBundle)
        failed == fail > 0 /\ fail <= Len(frames)
    IN [out    |-> IF failed THEN SubSeq(frames, 1, fail - 1) ELSE frames,
        drop   |-> IF ev.type = "DropRedundant" THEN ev.drop ELSE drop,
        bundle |-> CASE ev.type = "BundleReceived" -> ~inBundle
                     [] ev.type = "StartConfig" /\ inBundle -> FALSE
                     [] OTHER -> inBundle,
        next   |-> IF failed THEN "break" ELSE "continue",
        ack    |-> ev.type = "Sync"]

\* One iteration of the client writer loop on command ev; fail = 0: every write
\* succeeds, fail = k: the k-th encode_and_send_packet of the iteration fails.
\* Yields the frames written, the new locals and how the loop goes on.
ClientWriterHandle(ev, drop, inBundle, fail) ==
    IF DropGateBreaks(ev, drop)
    THEN [out |-> <<>>, drop |-> drop, bundle |-> inBundle, next |-> "break", ack |-> FALSE]
    ELSE IF ev.type = "StartGame" /\ inBundle
    THEN [out |-> <<>>, drop |-> drop, bundle |-> inBundle, next |-> "panic", ack |-> FALSE]
    ELSE LET frames == ClientFrames(ev, inBundle)
             failed == fail > 0 /\ fail <= Len(frames)
         IN [out    |-> IF failed THEN SubSeq(frames, 1, fail - 1) ELSE frames,
             drop   |-> IF ev.type = "DropRedundant" THEN ev.drop ELSE drop,
             bundle |-> CASE ev.type = "BundleReceived" -> ~inBundle
                          [] ev.type = "StartConfig" /\ inBundle -> FALSE
                          [] OTHER -> inBundle,
             next   |-> IF failed THEN "break" ELSE "continue",
             ack    |-> ev.type = "Sync"]

\* One iteration of the backend writer loop (backend.rs:149-171).
BackendWriterHandle(ev, drop, inBundle, fail) ==
    LET frames == IF ev.type = "Packet" THEN <<"packet">> ELSE <<>>
        failed == fail > 0 /\ fail <= Len(frames)
    IN [out    |-> IF failed THEN <<>> ELSE frames,
        drop   |-> drop,
        bundle |-> inBundle,
        next   |-> IF failed THEN "break" ELSE "continue",
        ack    |-> ev.type = "Sync"]

WriterHandle(kind, ev, drop, inBundle, fail) ==
    IF kind = "client" THEN ClientWriterHandle(ev, drop, inBundle, fail)
    ELSE BackendWriterHandle(ev, drop, inBundle, fail)

\* numbers (positions in wLog) of the commands still in the channel
Pending == {Len(wLog) - Len(wChan) + i : i \in 1..Len(wChan)}
PendingSyncs == {n \in Pending : wLog[n].type = "Sync"}

\* The command the writer receives next: the oldest one of the channel.
NewestCommand(chan) == Len(chan)
NextCommand(chan) == 1

RemoveAt(s, i) == SubSeq(s, 1, i - 1) \o SubSeq(s, i + 1, Len(s))

WInit ==
    /\ wKind \in {"client", "backend"}
    /\ wChan = <<>>
    /\ wDrop = FALSE
    /\ wBundle = FALSE
    /\ wTask = "run"
    /\ wAbort = FALSE
    /\ wClosed = FALSE
    /\ wWire = <<>>
    /\ wLog = <<>>
    /\ wRecv = 0
    /\ wSyncOk = {}
    /\ wSyncErr = {}

\* sender.send(cmd).await of queue_packet, drop_redundant, on_bundle, goto_config,
\* goto_game: the command enters the channel when the writer still holds the receiver.
Send(cmd) ==
    /\ wTask = "run"
    /\ Len(wChan) < MaxChan
    /\ Len(wLog) < MaxCmds
    /\ wChan' = Append(wChan, cmd)
    /\ wLog' = Append(wLog, cmd)

QueuePacket ==
    /\ \E bypass \in BOOLEAN : Send(Packet(bypass))
    /\ UNCHANGED <<wKind, wDrop, wBundle, wTask, wAbort, wClosed, wWire, wRecv, wSyncOk, wSyncErr,
                 pvars, rvars, lvars>>

DropRedundantCall ==
    /\ \E drop \in BOOLEAN : Send(DropRedundant(drop))
    /\ UNCHANGED <<wKind, wDrop, wBundle, wTask, wAbort, wClosed, wWire, wRecv, wSyncOk, wSyncErr,
                 pvars, rvars, lvars>>

OnBundle ==
    /\ Send(BundleReceived)
    /\ UNCHANGED <<wKind, wDrop, wBundle, wTask, wAbort, wClosed, wWire, wRecv, wSyncOk, wSyncErr,
                 pvars, rvars, lvars>>

GotoConfig ==
    /\ Send(StartConfig)
    /\ UNCHANGED <<wKind, wDrop, wBundle, wTask, wAbort, wClosed, wWire, wRecv, wSyncOk, wSyncErr,
                 pvars, rvars, lvars>>

GotoGame ==
    /\ Send(StartGame)
    /\ UNCHANGED <<wKind, wDrop, wBundle, wTask, wAbort, wClosed, wWire, wRecv, wSyncOk, wSyncErr,
                 pvars, rvars, lvars>>

\* sync(): the Sync command is queued; its result is settled by the writer.
SyncCall ==
    /\ Send(SyncCmd)
    /\ UNCHANGED <<wKind, wDrop, wBundle, wTask, wAbort, wClosed, wWire, wRecv, wSyncOk, wSyncErr,
                 pvars, rvars, lvars>>

\* sync() on a handle whose writer is gone: send fails, sync() returns Err.
SyncCallRefused ==
    /\ wTask # "run"
    /\ Len(wLog) < MaxCmds
    /\ wLog' = Append(wLog, SyncCmd)
    /\ wSyncErr' = wSyncErr \cup {Len(wLog) + 1}
    /\ UNCHANGED <<wKind, wChan, wDrop, wBundle, wTask, wAbort, wClosed, wWire, wRecv, wSyncOk,
                 pvars, rvars, lvars>>

\* disconnect(reason)
DisconnectCall ==
    /\ ~wClosed
    /\ wClosed' = TRUE
    /\ wAbort' = (wTask = "run")
    /\ UNCHANGED <<wKind, wChan, wDrop, wBundle, wTask, wWire, wLog, wRecv, wSyncOk, wSyncErr,
                 pvars, rvars, lvars>>

\* The writer leaves its loop or is cancelled: the receiver is dropped, and with it
\* every command still queued; the oneshot senders of the queued Syncs are dropped,
\* so their sync() calls return Err.
WriterGone(how) ==
    /\ wTask' = how
    /\ wChan' = <<>>
    /\ wAbort' = FALSE

\* while let Some(event) = receiver.recv().await { match event { ... } }
WriterRecv ==
    /\ wTask = "run"
    /\ wChan # <<>>
    /\ \E fail \in 0..2 :
        LET i   == NextCommand(wChan)
            n   == Len(wLog) - Len(wChan) + i
            r   == WriterHandle(wKind, wChan[i], wDrop, wBundle, fail)
            rest == RemoveAt(wChan, i)
        IN /\ fail <= Len(ClientFrames(wChan[i], wBundle))
           /\ wRecv' = wRecv + 1
           /\ wWire' = wWire \o [k \in 1..Len(r.out) |-> [n |-> n, frame |-> r.out[k]]]
           /\ wDrop' = r.drop
           /\ wBundle' = r.bundle
           /\ wSyncOk' = IF r.ack THEN wSyncOk \cup {n} ELSE wSyncOk
           /\ IF r.next = "continue"
              THEN /\ wChan' = rest
                   /\ UNCHANGED <<wTask, wAbort, wSyncErr>>
              ELSE /\ WriterGone(IF r.next = "panic" THEN "panicked" ELSE "exited")
                   /\ wSyncErr' = wSyncErr \cup
                         {m \in PendingSyncs : m # n}
    /\ UNCHANGED <<wKind, wClosed, wLog,
                 pvars, rvars, lvars>>

\* The abort requested by disconnect() takes effect.
WriterAborted ==
    /\ wTask = "run"
    /\ wAbort
    /\ WriterGone("exited")
    /\ wSyncErr' = wSyncErr \cup PendingSyncs
    /\ UNCHANGED <<wKind, wDrop, wBundle, wClosed, wWire, wLog, wRecv, wSyncOk,
                 pvars, rvars, lvars>>

WNext ==
    \/ QueuePacket
    \/ DropRedundantCall
    \/ OnBundle
    \/ GotoConfig
    \/ GotoGame
    \/ SyncCall
    \/ SyncCallRefused
    \/ DisconnectCall
    \/ WriterRecv
    \/ WriterAborted


\* ================================================================ player engine

Terminated == {"ok", "fail", "panic"}

\* a command of the client channel in Spec: data tells the frames of packets apart,
\* owner is the task awaiting a Sync (0: handle(), i: the exit hook of connection i)
Cmd(type, bypass, drop, data, owner) ==
    [type |-> type, bypass |-> bypass, drop |-> drop, data |-> data, owner |-> owner]

NoConn == [st |-> "none", label |-> "none", closed |-> FALSE, writer |-> "none",
           abort |-> FALSE, read_task |-> FALSE, lock |-> FALSE, hook |-> "none",
           prio |-> 0, join |-> 0, chan |-> 0, gone |-> FALSE, cfg |-> FALSE,
           recfg |-> FALSE, err |-> FALSE]

NoSwitch == [pc |-> "none", server |-> "none", backend |-> 0, old |-> 0]

PInit ==
    /\ client_handle = [closed |-> FALSE, writer |-> "run", abort |-> FALSE, chan |-> <<>>,
                        drop |-> FALSE, bundle |-> FALSE, protocol_state |-> "Config",
                        read_task |-> FALSE, partner |-> 0, should_forward |-> TRUE,
                        inbox |-> <<>>, gone |-> FALSE, lock |-> FALSE, sync_ok |-> {},
                        acked |-> FALSE, packet_limit |-> FALSE]
    /\ player = [is_switching_server |-> FALSE, config_ack_notify |-> FALSE,
                 game_ack_notify |-> FALSE, client_settings |-> FALSE,
                 server_handle |-> 0, current_server |-> "none"]
    /\ proxy = [player_by_name |-> FALSE, player_by_uuid |-> FALSE, player_count |-> 0]
    /\ hnd = [pc |-> "register", prio |-> 1, backend |-> 0, tried |-> <<>>,
              kicked |-> "none"]
    /\ cleanup = "none"
    /\ conns = [i \in 1..MaxConns |-> NoConn]
    /\ switches = [t \in 1..MaxSwitches |-> NoSwitch]
    /\ events = 0

\* disconnect without the test of closed: every call aborts what it finds
DisconnectAgain(h) ==
    [h EXCEPT !.closed = TRUE, !.abort = (h.writer = "run"), !.read_task = FALSE]

\* ConnectionHandle::disconnect (proxy_handler.rs:574-585)
Disconnect(h) ==
    IF h.closed THEN h
    ELSE [h EXCEPT !.closed = TRUE, !.abort = (h.writer = "run"), !.read_task = FALSE]

\* sender.send(cmd).await on the client channel returns: at once with Err when the
\* receiver is dropped, else when the channel has room
CanSend(h) == h.writer # "run" \/ Len(h.chan) < MaxChan
SendTo(h, cmd) == IF h.writer = "run" THEN [h EXCEPT !.chan = Append(@, cmd)] ELSE h

\* the same for a backend handle, whose channel holds forwarded packets only
CanSendBackend(c) == c.writer # "run" \/ c.chan < MaxChan
SendToBackend(c) == IF c.writer = "run" THEN [c EXCEPT !.chan = @ + 1] ELSE c

\* backend::connect succeeded: an EstablishedBackend for label
FreeConns == {i \in 1..MaxConns : conns[i].st = "none"}
NextConn == CHOOSE i \in FreeConns : \A j \in FreeConns : i <= j
Established(label) == [NoConn EXCEPT !.st = "established", !.label = label]

\* EstablishedBackend::begin_proxying (backend.rs:68-230): reader, writer and exit
\* hook are spawned, the handle is returned
BeginProxying(c) ==
    [c EXCEPT !.st = "attached", !.writer = "run", !.read_task = TRUE, !.hook = "spawned"]

FreeSwitches == {t \in 1..MaxSwitches : switches[t].pc = "none"}
NextSwitch == CHOOSE t \in FreeSwitches : \A u \in FreeSwitches : t <= u

\* WeakHandle::upgrade succeeds while a task holds a Handle of the player
PlayerAlive ==
    \/ hnd.pc \notin {"done", "panicked"}
    \/ cleanup \notin {"none", "done"}
    \/ \E t \in 1..MaxSwitches : switches[t].pc \notin ({"none"} \cup Terminated)

\* the Sync of owner was received by the writer / was dropped with the receiver
SyncOk(owner) == owner \in client_handle.sync_ok
SyncErr(owner) ==
    /\ owner \notin client_handle.sync_ok
    /\ \A k \in 1..Len(client_handle.chan) :
          ~(client_handle.chan[k].type = "Sync" /\ client_handle.chan[k].owner = owner)

\* an input of the client, of a backend or of a command task is counted
Input == events < MaxEvents /\ events' = events + 1

\* ------------------------------------------------ proxy_handler::handle (64-339)
HRegister ==
    /\ hnd.pc = "register"
    /\ proxy' = [player_by_name |-> TRUE, player_by_uuid |-> TRUE,
                 player_count |-> proxy.player_count + 1]
    /\ hnd' = [hnd EXCEPT !.pc = "connect"]
    /\ UNCHANGED <<client_handle, player, cleanup, conns, switches, events, wvars, rvars, lvars>>

\* one pass of the loop over get_priorities() (proxy_handler.rs:263-290); tried
\* keeps what became of every label (history)
Tried(label, outcome) == [label |-> label, outcome |-> outcome]

\* the loop without the test of get_server_by_name: every label is connected to
HConnectBlind ==
    /\ hnd.pc = "connect"
    /\ IF hnd.prio > Len(Priorities)
       THEN /\ hnd' = [hnd EXCEPT !.pc = "spawn", !.backend = 0]
            /\ UNCHANGED conns
       ELSE \E ok \in BOOLEAN :
               IF ok /\ FreeConns # {}
               THEN /\ conns' = [conns EXCEPT ![NextConn] = Established(Priorities[hnd.prio])]
                    /\ hnd' = [hnd EXCEPT !.pc = "spawn", !.backend = NextConn,
                                !.tried = Append(@, Tried(Priorities[hnd.prio], "ok"))]
               ELSE /\ hnd' = [hnd EXCEPT !.prio = @ + 1,
                                !.tried = Append(@, Tried(Priorities[hnd.prio], "failed"))]
                    /\ UNCHANGED conns
    /\ UNCHANGED <<client_handle, player, proxy, cleanup, switches, events, wvars, rvars, lvars>>

HConnect ==
    /\ hnd.pc = "connect"
    /\ IF hnd.prio > Len(Priorities)
       THEN /\ hnd' = [hnd EXCEPT !.pc = "spawn", !.backend = 0]
            /\ UNCHANGED conns
       ELSE IF Priorities[hnd.prio] \notin Servers
       THEN /\ hnd' = [hnd EXCEPT !.prio = @ + 1,
                        !.tried = Append(@, Tried(Priorities[hnd.prio], "missing"))]
            /\ UNCHANGED conns
       ELSE \E ok \in BOOLEAN :
               IF ok /\ FreeConns # {}
               THEN /\ conns' = [conns EXCEPT ![NextConn] = Established(Priorities[hnd.prio])]
                    /\ hnd' = [hnd EXCEPT !.pc = "spawn", !.backend = NextConn,
                                !.tried = Append(@, Tried(Priorities[hnd.prio], "ok"))]
               ELSE /\ hnd' = [hnd EXCEPT !.prio = @ + 1,
                                !.tried = Append(@, Tried(Priorities[hnd.prio], "failed"))]
                    /\ UNCHANGED conns
    /\ UNCHANGED <<client_handle, player, proxy, cleanup, switches, events, wvars, rvars, lvars>>

HSpawnCleanup ==
    /\ hnd.pc = "spawn"
    /\ cleanup' = "start"
    /\ hnd' = [hnd EXCEPT !.pc = IF hnd.backend = 0 THEN "kick" ELSE "attach"]
    /\ UNCHANGED <<client_handle, player, proxy, conns, switches, events, wvars, rvars, lvars>>

\* ProxiedPlayer::kick (mod.rs:458-471): queue_packet(kick, true)?
HKick ==
    /\ hnd.pc = "kick"
    /\ CanSend(client_handle)
    /\ client_handle' = SendTo(client_handle, Cmd("Packet", TRUE, FALSE, "kick", 0))
    /\ hnd' = [hnd EXCEPT !.pc = IF client_handle.writer = "run" THEN "kick_sync" ELSE "done",
                           !.kicked = IF client_handle.writer = "run" THEN "queued"
                                      ELSE "refused"]
    /\ UNCHANGED <<player, proxy, cleanup, conns, switches, events, wvars, rvars, lvars>>

\* sync().await? : the Sync is queued
HKickSync ==
    /\ hnd.pc = "kick_sync"
    /\ CanSend(client_handle)
    /\ client_handle' = SendTo(client_handle, Cmd("Sync", FALSE, FALSE, "sync", 0))
    /\ hnd' = [hnd EXCEPT !.pc = IF client_handle.writer = "run" THEN "kick_wait" ELSE "done"]
    /\ UNCHANGED <<player, proxy, cleanup, conns, switches, events, wvars, rvars, lvars>>

\* sync() returns; on Ok the client handle is disconnected
HKickWait ==
    /\ hnd.pc = "kick_wait"
    /\ \/ /\ SyncOk(0)
          /\ client_handle' = [Disconnect(client_handle) EXCEPT !.sync_ok = @ \ {0}]
       \/ /\ SyncErr(0)
          /\ UNCHANGED client_handle
    /\ hnd' = [hnd EXCEPT !.pc = "done"]
    /\ UNCHANGED <<player, proxy, cleanup, conns, switches, events, wvars, rvars, lvars>>

HAttach ==
    /\ hnd.pc = "attach"
    /\ conns' = [conns EXCEPT ![hnd.backend] = BeginProxying(@)]
    /\ hnd' = [hnd EXCEPT !.pc = "install"]
    /\ UNCHANGED <<client_handle, player, proxy, cleanup, switches, events, wvars, rvars, lvars>>

\* current_server, server_handle are set and the client reader is spawned
\* (spawn_read_task panics when a read task is installed already)
HInstall ==
    /\ hnd.pc = "install"
    /\ player' = [player EXCEPT !.current_server = conns[hnd.backend].label,
                                !.server_handle = hnd.backend]
    /\ IF client_handle.read_task
       THEN /\ hnd' = [hnd EXCEPT !.pc = "panicked"]
            /\ UNCHANGED client_handle
       ELSE /\ hnd' = [hnd EXCEPT !.pc = "done"]
            /\ client_handle' = [client_handle EXCEPT !.read_task = TRUE,
                                     !.partner = hnd.backend, !.should_forward = TRUE,
                                     !.packet_limit = TRUE]
    /\ UNCHANGED <<proxy, cleanup, conns, switches, events, wvars, rvars, lvars>>

\* write_task.await of the cleanup task and of an exit hook returns once the writer
\* task has ended
JoinReturnsAtOnce(h) == TRUE
JoinReturns(h) == h.writer # "run"

\* ------------------------------------------ the cleanup task (proxy_handler.rs:295-317)
CleanupLock ==
    /\ cleanup = "start"
    /\ cleanup' = "await"
    /\ client_handle' = [client_handle EXCEPT !.lock = TRUE]
    /\ UNCHANGED <<player, proxy, hnd, conns, switches, events, wvars, rvars, lvars>>

\* write_task.await returned: the player leaves the maps, the count goes down
CleanupRemove ==
    /\ cleanup = "await"
    /\ JoinReturns(client_handle)
    /\ proxy' = [player_by_name |-> FALSE, player_by_uuid |-> FALSE,
                 player_count |-> proxy.player_count - 1]
    /\ cleanup' = "disconnect"
    /\ UNCHANGED <<client_handle, player, hnd, conns, switches, events, wvars, rvars, lvars>>

\* the backend the player record names now is disconnected, the guard is dropped
CleanupDisconnect ==
    /\ cleanup = "disconnect"
    /\ conns' = IF player.server_handle # 0
                THEN [conns EXCEPT ![player.server_handle] = Disconnect(@)]
                ELSE conns
    /\ client_handle' = [client_handle EXCEPT !.lock = FALSE]
    /\ cleanup' = "done"
    /\ UNCHANGED <<player, proxy, hnd, switches, events, wvars, rvars, lvars>>

\* ------------------------------ the client writer task (proxy_handler.rs:90-200)
\* what the client answers to the frames of one command: ConfigurationAck to a
\* StartConfiguration, the proxy's own or one forwarded from the backend, and
\* FinishConfiguration to a FinishConfiguration
Answers(ev, frames) ==
    IF \E k \in 1..Len(frames) :
          \/ frames[k] = "StartConfiguration"
          \/ frames[k] = "packet" /\ ev.data = "StartConfiguration"
    THEN <<"ConfigurationAck">>
    ELSE IF \E k \in 1..Len(frames) :
               \/ frames[k] = "FinishConfiguration"
               \/ frames[k] = "packet" /\ ev.data = "FinishConfiguration"
    THEN <<"FinishConfiguration">>
    ELSE <<>>

ClientWriterRecv ==
    /\ client_handle.writer = "run"
    /\ client_handle.chan # <<>>
    /\ \E fail \in 0..2 :
        LET ev  == Head(client_handle.chan)
            r   == ClientWriterHandle(ev, client_handle.drop, client_handle.bundle, fail)
            ans == IF client_handle.gone THEN <<>> ELSE Answers(ev, r.out)
        IN /\ fail > 0 => client_handle.gone /\ fail <= Len(ClientFrames(ev, client_handle.bundle))
           /\ client_handle' =
                IF r.next = "continue"
                THEN [client_handle EXCEPT
                        !.chan = Tail(@), !.drop = r.drop, !.bundle = r.bundle,
                        !.inbox = @ \o ans,
                        !.acked = @ \/ (ev.type = "StartConfig" /\ ans # <<>>),
                        !.sync_ok = IF r.ack THEN @ \cup {ev.owner} ELSE @]
                ELSE [client_handle EXCEPT
                        !.chan = <<>>, !.abort = FALSE, !.inbox = @ \o ans,
                        !.writer = IF r.next = "panic" THEN "panicked" ELSE "exited"]
    /\ UNCHANGED <<player, proxy, hnd, cleanup, conns, switches, events, wvars, rvars, lvars>>

ClientWriterAborted ==
    /\ client_handle.writer = "run"
    /\ client_handle.abort
    /\ client_handle' = [client_handle EXCEPT !.writer = "exited", !.chan = <<>>,
                                              !.abort = FALSE]
    /\ UNCHANGED <<player, proxy, hnd, cleanup, conns, switches, events, wvars, rvars, lvars>>

\* ------------------------------------ the client reader (proxy_handler.rs:341-413)
\* ClientPacketHandler::handle_packet (packet_handler.rs:14-85) on the packet types
\* the registry knows in the current state: what is cached or notified, whether the
\* packet is forwarded
\* the handler without the early return of the ConfigurationAck arm: the
\* acknowledgement is notified and then forwarded like any other packet
ClientInterceptForwardsAck(pkt, state, switching) ==
    CASE pkt = "FinishConfiguration" /\ state = "Config" ->
            [state |-> "Game", config_ack |-> FALSE, game_ack |-> FALSE,
             settings |-> FALSE, forward |-> TRUE]
      [] pkt = "ConfigurationAck" /\ state = "Game" ->
            [state |-> "Config", config_ack |-> switching, game_ack |-> FALSE,
             settings |-> FALSE, forward |-> TRUE]
      [] pkt = "ClientSettings" ->
            [state |-> state, config_ack |-> FALSE, game_ack |-> FALSE,
             settings |-> TRUE, forward |-> TRUE]
      [] OTHER ->
            [state |-> state, config_ack |-> FALSE, game_ack |-> FALSE,
             settings |-> FALSE, forward |-> TRUE]

ClientIntercept(pkt, state, switching) ==
    CASE pkt = "FinishConfiguration" /\ state = "Config" ->
            [state |-> "Game", config_ack |-> FALSE, game_ack |-> FALSE,
             settings |-> FALSE, forward |-> TRUE]
      [] pkt = "ConfigurationAck" /\ state = "Game" ->
            [state |-> "Config", config_ack |-> switching, game_ack |-> FALSE,
             settings |-> FALSE, forward |-> ~switching]
      [] pkt = "ClientSettings" ->
            [state |-> state, config_ack |-> FALSE, game_ack |-> FALSE,
             settings |-> TRUE, forward |-> TRUE]
      [] OTHER ->
            [state |-> state, config_ack |-> FALSE, game_ack |-> FALSE,
             settings |-> FALSE, forward |-> TRUE]

ClientRead ==
    /\ client_handle.read_task
    /\ client_handle.inbox # <<>>
    /\ LET pkt == Head(client_handle.inbox)
           r   == ClientIntercept(pkt, client_handle.protocol_state,
                                  PlayerAlive /\ player.is_switching_server)
           fwd == r.forward /\ client_handle.should_forward
           p   == client_handle.partner
           ok  == conns[p].writer = "run"
       IN /\ fwd => CanSendBackend(conns[p])
          /\ player' = [player EXCEPT
                            !.config_ack_notify = @ \/ r.config_ack,
                            !.game_ack_notify = @ \/ r.game_ack,
                            !.client_settings = @ \/ (r.settings /\ PlayerAlive)]
          /\ client_handle' = [client_handle EXCEPT
                            !.inbox = Tail(@), !.protocol_state = r.state,
                            !.should_forward = @ /\ (fwd => ok)]
          /\ conns' = IF fwd
                      THEN [conns EXCEPT ![p] = IF ok THEN SendToBackend(@) ELSE Disconnect(@)]
                      ELSE conns
    /\ UNCHANGED <<proxy, hnd, cleanup, switches, events, wvars, rvars, lvars>>

\* read_and_decode_packet fails: partner and own handle are disconnected
ClientReadError ==
    /\ client_handle.read_task
    /\ client_handle.gone
    /\ conns' = [conns EXCEPT ![client_handle.partner] = Disconnect(@)]
    /\ client_handle' = [Disconnect(client_handle) EXCEPT !.read_task = FALSE]
    /\ UNCHANGED <<player, proxy, hnd, cleanup, switches, events, wvars, rvars, lvars>>

\* ------------------------------------------------------------------ the client
ClientCloses ==
    /\ ~client_handle.gone
    /\ client_handle' = [client_handle EXCEPT !.gone = TRUE]
    /\ UNCHANGED <<player, proxy, hnd, cleanup, conns, switches, wvars, rvars, lvars>>
    /\ Input

ClientSendsSettings ==
    /\ ~client_handle.gone
    /\ client_handle' = [client_handle EXCEPT !.inbox = Append(@, "ClientSettings")]
    /\ UNCHANGED <<player, proxy, hnd, cleanup, conns, switches, wvars, rvars, lvars>>
    /\ Input

\* --------------------------- the tasks of a backend connection (backend.rs:95-172)
\* the backend reader reads a frame and forwards it to the client handle; a
\* StartConfiguration of the backend is no packet ServerPacketHandler intercepts
\* (packet_handler.rs:105-157), it is forwarded like any other
BackendForward(i) ==
    /\ conns[i].read_task
    /\ ~conns[i].gone
    /\ CanSend(client_handle)
    /\ \E data \in {"FinishConfiguration", "StartConfiguration", "packet"} :
        /\ data = "FinishConfiguration" => ~conns[i].cfg
        /\ data = "StartConfiguration" => ~conns[i].recfg
        /\ LET c == CASE data = "FinishConfiguration" -> [conns[i] EXCEPT !.cfg = TRUE]
                      [] data = "StartConfiguration" -> [conns[i] EXCEPT !.recfg = TRUE]
                      [] OTHER -> conns[i]
           IN conns' = [conns EXCEPT ![i] =
                            IF client_handle.writer = "run" THEN c ELSE Disconnect(c)]
        /\ client_handle' = SendTo(client_handle, Cmd("Packet", FALSE, FALSE, data, 0))
    /\ UNCHANGED <<player, proxy, hnd, cleanup, switches, wvars, rvars, lvars>>
    /\ Input

\* the backend reader reads a bundle delimiter that opens a bundle: the handle of
\* the backend shares the protocol state of the client (backend.rs:82, 189) and
\* BundleDelimiter is registered for Game only; on_bundle queues BundleReceived,
\* its result is dropped and the frame is not forwarded (packet_handler.rs:105-109)
BackendBundle(i) ==
    /\ conns[i].read_task
    /\ ~conns[i].gone
    /\ client_handle.protocol_state = "Game"
    /\ ~client_handle.bundle
    /\ \A k \in 1..Len(client_handle.chan) : client_handle.chan[k].type # "BundleReceived"
    /\ CanSend(client_handle)
    /\ client_handle' = SendTo(client_handle, Cmd("BundleReceived", FALSE, FALSE, "bundle", 0))
    /\ UNCHANGED <<player, proxy, hnd, cleanup, conns, switches, events, wvars, rvars, lvars>>

\* the backend closes its end of the connection
BackendCloses(i) ==
    /\ conns[i].st # "none"
    /\ ~conns[i].gone
    /\ conns' = [conns EXCEPT ![i].gone = TRUE]
    /\ UNCHANGED <<client_handle, player, proxy, hnd, cleanup, switches, wvars, rvars, lvars>>
    /\ Input

\* the backend sends a frame that read_and_decode_packet or handle_packet cannot
\* decode, or one without a packet id (backend.rs:110-113, 116-119, 131-134): each
\* branch disconnects the reader's own handle only and leaves the loop
BackendReadFails(i) ==
    /\ conns[i].read_task
    /\ ~conns[i].gone
    /\ conns' = [conns EXCEPT ![i] = [Disconnect(@) EXCEPT !.read_task = FALSE, !.err = TRUE]]
    /\ UNCHANGED <<client_handle, player, proxy, hnd, cleanup, switches, wvars, rvars, lvars>>
    /\ Input

BackendReadError(i) ==
    /\ conns[i].read_task
    /\ conns[i].gone
    /\ conns' = [conns EXCEPT ![i] = Disconnect(@)]
    /\ UNCHANGED <<client_handle, player, proxy, hnd, cleanup, switches, events, wvars, rvars, lvars>>

BackendWriterRecv(i) ==
    /\ conns[i].writer = "run"
    /\ conns[i].chan > 0
    /\ \E fail \in 0..1 :
        LET r == BackendWriterHandle(Packet(FALSE), FALSE, FALSE, fail)
        IN /\ fail > 0 => conns[i].gone
           /\ conns' = [conns EXCEPT ![i] =
                 IF r.next = "continue" THEN [@ EXCEPT !.chan = @ - 1]
                 ELSE [@ EXCEPT !.chan = 0, !.writer = "exited", !.abort = FALSE]]
    /\ UNCHANGED <<client_handle, player, proxy, hnd, cleanup, switches, events, wvars, rvars, lvars>>

BackendWriterAborted(i) ==
    /\ conns[i].writer = "run"
    /\ conns[i].abort
    /\ conns' = [conns EXCEPT ![i] = [@ EXCEPT !.chan = 0, !.writer = "exited", !.abort = FALSE]]
    /\ UNCHANGED <<client_handle, player, proxy, hnd, cleanup, switches, events, wvars, rvars, lvars>>

\* -------------------------- ProxiedPlayer::switch_server, the call (mod.rs:473-487)
\* the test of is_switching_server under its mutex: TRUE when the call is refused
SwitchRefusedNever(flag) == FALSE
SwitchRefused(flag) == flag

\* the flag is taken and the switch task is spawned
StartSwitch(server) ==
    /\ FreeSwitches # {}
    /\ player' = [player EXCEPT !.is_switching_server = TRUE]
    /\ switches' = [switches EXCEPT ![NextSwitch] =
                        [pc |-> "start", server |-> server, backend |-> 0, old |-> 0]]

\* a command task (/server, /send) calls switch_server for a player it found in
\* the map: the closed check, then the test and set of the flag
CommandSwitches ==
    /\ PlayerAlive
    /\ proxy.player_by_name
    /\ \E server \in Labels :
          IF client_handle.closed \/ SwitchRefused(player.is_switching_server)
          THEN UNCHANGED <<player, switches>>
          ELSE StartSwitch(server)
    /\ UNCHANGED <<client_handle, proxy, hnd, cleanup, conns, wvars, rvars, lvars>>
    /\ Input

\* ------------------------------- the exit hook of a backend (backend.rs:201-228)
HookLock(i) ==
    /\ conns[i].hook = "spawned"
    /\ conns' = [conns EXCEPT ![i].hook = "await", ![i].lock = TRUE]
    /\ UNCHANGED <<client_handle, player, proxy, hnd, cleanup, switches, events, wvars, rvars, lvars>>

\* write_task.await returned, the guard is dropped
HookWake(i) ==
    /\ conns[i].hook = "await"
    /\ JoinReturns(conns[i])
    /\ conns' = [conns EXCEPT ![i].hook = "walk", ![i].lock = FALSE, ![i].prio = 1]
    /\ UNCHANGED <<client_handle, player, proxy, hnd, cleanup, switches, events, wvars, rvars, lvars>>

\* the next priority server: switch_server_helper (backend.rs:233-256) ends the
\* hook when the player is gone or switch_server returns None, else the task is
\* awaited
HookTry(i) ==
    /\ conns[i].hook = "walk"
    /\ LET c == conns[i]
       IN IF c.prio > Len(Priorities)
          THEN /\ conns' = [conns EXCEPT ![i].hook = "kick"]
               /\ UNCHANGED <<player, switches>>
          ELSE IF Priorities[c.prio] \notin Servers
          THEN /\ conns' = [conns EXCEPT ![i].prio = @ + 1]
               /\ UNCHANGED <<player, switches>>
          ELSE IF \/ ~PlayerAlive
                  \/ client_handle.closed
                  \/ SwitchRefused(player.is_switching_server)
          THEN /\ conns' = [conns EXCEPT ![i].hook = "done"]
               /\ UNCHANGED <<player, switches>>
          ELSE /\ StartSwitch(Priorities[c.prio])
               /\ conns' = [conns EXCEPT ![i].hook = "join", ![i].join = NextSwitch]
    /\ UNCHANGED <<client_handle, proxy, hnd, cleanup, events, wvars, rvars, lvars>>

HookJoin(i) ==
    /\ conns[i].hook = "join"
    /\ switches[conns[i].join].pc \in Terminated
    /\ conns' = [conns EXCEPT ![i] =
          IF switches[@.join].pc = "ok" THEN [@ EXCEPT !.hook = "done"]
          ELSE [@ EXCEPT !.hook = "walk", !.prio = @ + 1]]
    /\ UNCHANGED <<client_handle, player, proxy, hnd, cleanup, switches, events, wvars, rvars, lvars>>

\* no fallback server: partner_handle.queue_packet(kick, true).ok()
HookKick(i) ==
    /\ conns[i].hook = "kick"
    /\ CanSend(client_handle)
    /\ client_handle' = SendTo(client_handle, Cmd("Packet", TRUE, FALSE, "kick", i))
    /\ conns' = [conns EXCEPT ![i].hook = "kick_sync"]
    /\ UNCHANGED <<player, proxy, hnd, cleanup, switches, events, wvars, rvars, lvars>>

\* partner_handle.sync().await.ok(): the Sync is queued
HookKickSync(i) ==
    /\ conns[i].hook = "kick_sync"
    /\ CanSend(client_handle)
    /\ client_handle' = SendTo(client_handle, Cmd("Sync", FALSE, FALSE, "sync", i))
    /\ conns' = [conns EXCEPT ![i].hook = "kick_wait"]
    /\ UNCHANGED <<player, proxy, hnd, cleanup, switches, events, wvars, rvars, lvars>>

\* sync() returned, partner_handle.disconnect("no fallback server found")
HookKickDisconnect(i) ==
    /\ conns[i].hook = "kick_wait"
    /\ SyncOk(i) \/ SyncErr(i)
    /\ client_handle' = [Disconnect(client_handle) EXCEPT !.sync_ok = @ \ {i}]
    /\ conns' = [conns EXCEPT ![i].hook = "done"]
    /\ UNCHANGED <<player, proxy, hnd, cleanup, switches, events, wvars, rvars, lvars>>

\* ----------------------------------------- the switch task (mod.rs:490-608)
SetPc(t, pc) == switches' = [switches EXCEPT ![t].pc = pc]
Release == player' = [player EXCEPT !.is_switching_server = FALSE]

\* the closed check, then the label is resolved in the server list
SwitchStart(t) ==
    /\ switches[t].pc = "start"
    /\ IF client_handle.closed
       THEN SetPc(t, "fail") /\ UNCHANGED player
       ELSE IF switches[t].server \notin Servers
       THEN SetPc(t, "fail") /\ Release
       ELSE SetPc(t, "connect") /\ UNCHANGED player
    /\ UNCHANGED <<client_handle, proxy, hnd, cleanup, conns, events, wvars, rvars, lvars>>

\* backend::connect
SwitchConnect(t) ==
    /\ switches[t].pc = "connect"
    /\ \E ok \in BOOLEAN :
        IF ok /\ FreeConns # {}
        THEN /\ conns' = [conns EXCEPT ![NextConn] = Established(switches[t].server)]
             /\ switches' = [switches EXCEPT ![t].pc = "drop_on", ![t].backend = NextConn]
             /\ UNCHANGED player
        ELSE /\ SetPc(t, "notify")
             /\ Release
             /\ UNCHANGED conns
    /\ UNCHANGED <<client_handle, proxy, hnd, cleanup, events, wvars, rvars, lvars>>

\* send_message("Could not connect"): get_full_server_packet_buf panics where
\* SystemChatMessage has no packet id (packets.rs:43-52), else the chat is queued
SwitchNotify(t) ==
    /\ switches[t].pc = "notify"
    /\ IF client_handle.protocol_state # "Game"
       THEN SetPc(t, "panic") /\ UNCHANGED client_handle
       ELSE /\ CanSend(client_handle)
            /\ client_handle' = SendTo(client_handle, Cmd("Packet", FALSE, FALSE, "chat", 0))
            /\ SetPc(t, "fail")
    /\ UNCHANGED <<player, proxy, hnd, cleanup, conns, events, wvars, rvars, lvars>>

SwitchDropOn(t) ==
    /\ switches[t].pc = "drop_on"
    /\ CanSend(client_handle)
    /\ client_handle' = SendTo(client_handle, Cmd("DropRedundant", FALSE, TRUE, "gate", 0))
    /\ SetPc(t, "disc_old")
    /\ UNCHANGED <<player, proxy, hnd, cleanup, conns, events, wvars, rvars, lvars>>

\* the old server handle, if any, is disconnected
SwitchDisconnectOld(t) ==
    /\ switches[t].pc = "disc_old"
    /\ IF player.server_handle # 0
       THEN /\ conns' = [conns EXCEPT ![player.server_handle] = Disconnect(@)]
            /\ switches' = [switches EXCEPT ![t].pc = "wait_old",
                                            ![t].old = player.server_handle]
       ELSE /\ SetPc(t, "state")
            /\ UNCHANGED conns
    /\ UNCHANGED <<client_handle, player, proxy, hnd, cleanup, events, wvars, rvars, lvars>>

\* ConnectionHandle::wait_for_disconnect (proxy_handler.rs:587-589): the read side
\* of disconnect_wait is taken and released
WaitForDisconnectReturns(c) == ~c.lock

SwitchWaitOld(t) ==
    /\ switches[t].pc = "wait_old"
    /\ WaitForDisconnectReturns(conns[switches[t].old])
    /\ SetPc(t, "state")
    /\ UNCHANGED <<client_handle, player, proxy, hnd, cleanup, conns, events, wvars, rvars, lvars>>

\* a client in Config is first sent to Game: goto_game
SwitchState(t) ==
    /\ switches[t].pc = "state"
    /\ IF client_handle.protocol_state = "Config"
       THEN /\ CanSend(client_handle)
            /\ client_handle' = SendTo(client_handle, Cmd("StartGame", FALSE, FALSE, "game", 0))
            /\ SetPc(t, "wait_game")
       ELSE /\ SetPc(t, "goto_config")
            /\ UNCHANGED client_handle
    /\ UNCHANGED <<player, proxy, hnd, cleanup, conns, events, wvars, rvars, lvars>>

\* goto_config, reached at once from Game and through
\* game_ack_notify.notified().await from Config
SwitchGotoConfig(t) ==
    /\ \/ switches[t].pc = "goto_config"
       \/ switches[t].pc = "wait_game" /\ player.game_ack_notify
    /\ CanSend(client_handle)
    /\ client_handle' = [SendTo(client_handle, Cmd("StartConfig", FALSE, FALSE, "config", 0))
                            EXCEPT !.acked = FALSE]
    /\ player' = [player EXCEPT !.game_ack_notify = @ /\ switches[t].pc # "wait_game"]
    /\ SetPc(t, "wait_config")
    /\ UNCHANGED <<proxy, hnd, cleanup, conns, events, wvars, rvars, lvars>>

\* config_ack_notify.notified().await
SwitchWaitConfig(t) ==
    /\ switches[t].pc = "wait_config"
    /\ player.config_ack_notify
    /\ player' = [player EXCEPT !.config_ack_notify = FALSE]
    /\ SetPc(t, "drop_off")
    /\ UNCHANGED <<client_handle, proxy, hnd, cleanup, conns, events, wvars, rvars, lvars>>

SwitchDropOff(t) ==
    /\ switches[t].pc = "drop_off"
    /\ CanSend(client_handle)
    /\ client_handle' = SendTo(client_handle, Cmd("DropRedundant", FALSE, FALSE, "gate", 0))
    /\ SetPc(t, "abort_reader")
    /\ UNCHANGED <<player, proxy, hnd, cleanup, conns, events, wvars, rvars, lvars>>

\* the client's read task is taken and aborted
\* the switch without the take and abort of the client's read task
SwitchKeepsReader(t) ==
    /\ switches[t].pc = "abort_reader"
    /\ SetPc(t, "attach")
    /\ UNCHANGED <<client_handle, player, proxy, hnd, cleanup, conns, events, wvars, rvars, lvars>>

SwitchAbortReader(t) ==
    /\ switches[t].pc = "abort_reader"
    /\ client_handle' = [client_handle EXCEPT !.read_task = FALSE]
    /\ SetPc(t, "attach")
    /\ UNCHANGED <<player, proxy, hnd, cleanup, conns, events, wvars, rvars, lvars>>

SwitchAttach(t) ==
    /\ switches[t].pc = "attach"
    /\ conns' = [conns EXCEPT ![switches[t].backend] = BeginProxying(@)]
    /\ SetPc(t, "replay")
    /\ UNCHANGED <<client_handle, player, proxy, hnd, cleanup, events, wvars, rvars, lvars>>

\* the cached ClientSettings are queued on the new backend; a failed send releases
\* the flag and ends the task
SwitchReplay(t) ==
    /\ switches[t].pc = "replay"
    /\ LET b == switches[t].backend
       IN IF player.client_settings
          THEN /\ CanSendBackend(conns[b])
               /\ conns' = [conns EXCEPT ![b] = SendToBackend(@)]
               /\ IF conns[b].writer = "run"
                  THEN SetPc(t, "spawn_reader") /\ UNCHANGED player
                  ELSE SetPc(t, "fail") /\ Release
          ELSE /\ SetPc(t, "spawn_reader")
               /\ UNCHANGED <<conns, player>>
    /\ UNCHANGED <<client_handle, proxy, hnd, cleanup, events, wvars, rvars, lvars>>

SwitchSpawnReader(t) ==
    /\ switches[t].pc = "spawn_reader"
    /\ IF client_handle.read_task
       THEN SetPc(t, "panic") /\ UNCHANGED client_handle
       ELSE /\ client_handle' = [client_handle EXCEPT !.read_task = TRUE,
                        !.partner = switches[t].backend, !.should_forward = TRUE,
                        !.packet_limit = FALSE]
            /\ SetPc(t, "commit")
    /\ UNCHANGED <<player, proxy, hnd, cleanup, conns, events, wvars, rvars, lvars>>

SwitchCommit(t) ==
    /\ switches[t].pc = "commit"
    /\ player' = [player EXCEPT !.current_server = switches[t].server,
                                !.server_handle = switches[t].backend]
    /\ SetPc(t, "release")
    /\ UNCHANGED <<client_handle, proxy, hnd, cleanup, conns, events, wvars, rvars, lvars>>

SwitchRelease(t) ==
    /\ switches[t].pc = "release"
    /\ Release
    /\ SetPc(t, "ok")
    /\ UNCHANGED <<client_handle, proxy, hnd, cleanup, conns, events, wvars, rvars, lvars>>

\* ============================================================== reader task
\* the loops of read_task (proxy_handler.rs:341-413) and of the backend reader
\* (backend.rs:95-143), frame by frame

\* PacketRegistry::get_client_packet_type on the entries of the Game state the
\* model uses (packet_ids.rs:84-89, 224-229): ClientSettings
GetClientPacketType(version, id) ==
    IF id \notin 0..255 THEN "None"
    ELSE IF version >= R1_20_5 /\ id = 10 THEN "ClientSettings"
    ELSE IF version < R1_20_5 /\ id = 9 THEN "ClientSettings"
    ELSE "None"

\* PacketRegistry::get_server_packet_type on the entries the model uses
\* (packet_ids.rs:73-78): Kick in Game (301-317) and in Config (211-215)
GetServerPacketType(state, version, id) ==
    IF id \notin 0..255 THEN "None"
    ELSE IF state = "Game" /\ version >= R1_20_5 /\ id = 29 THEN "Kick"
    ELSE IF state = "Game" /\ version < R1_20_5 /\ id = 27 THEN "Kick"
    ELSE IF state = "Config" /\ version >= R1_20_5 /\ id = 2 THEN "Kick"
    ELSE IF state = "Config" /\ version < R1_20_5 /\ id = 1 THEN "Kick"
    ELSE "None"

\* the frames a peer sends: one that read_and_decode_packet rejects, one without a
\* packet id, and packets with an id and a body that decodes (ok) or does not
PacketIds == {1, 10, 29, 300}
PacketFrames == [kind : {"packet"}, id : PacketIds, ok : BOOLEAN]
Frames ==
    PacketFrames \cup {[kind |-> k, id |-> 0, ok |-> FALSE] : k \in {"malformed", "empty"}}
NoFrame == [kind |-> "none", id |-> 0, ok |-> FALSE]

\* frames arriving at one instant, and the waits between them in ms
Bursts == {1, PacketLimit - 1, PacketLimit}
Waits == {RateWindow - 1, RateWindow, ReadTimeout}

Min(a, b) == IF a < b THEN a ELSE b

\* handle_packet of a frame whose id has no registry entry returning Err
HandlePacketStrict(kind, state, version, f) ==
    LET type == IF kind = "client" THEN GetClientPacketType(version, f.id)
                ELSE GetServerPacketType(state, version, f.id)
    IN IF type = "None" THEN "error"
       ELSE IF ~f.ok THEN "error"
       ELSE IF type = "Kick" THEN "drop" ELSE "forward"

\* ClientPacketHandler::handle_packet and ServerPacketHandler::handle_packet
\* (packet_handler.rs:14-85, 104-211): Err when the body of a registered packet
\* does not decode, Ok(false) for a Kick, Ok(true) for ClientSettings and for every
\* id without a registry entry
HandlePacket(kind, state, version, f) ==
    LET type == IF kind = "client" THEN GetClientPacketType(version, f.id)
                ELSE GetServerPacketType(state, version, f.id)
    IN IF type = "None" THEN "forward"
       ELSE IF ~f.ok THEN "error"
       ELSE IF type = "Kick" THEN "drop" ELSE "forward"

\* a Kick that is swallowed without a message to the client
QueueNothing(st, f, up) == st

\* the Kick branch of ServerPacketHandler::handle_packet (packet_handler.rs:110-124)
\* after the decoding: in Game a SystemChatMessage with pos 0 is built from the
\* kick's text and queued on the client handle, a failed queue_packet is ignored
QueueKickChat(st, f, up) ==
    IF /\ st.kind = "backend"
       /\ GetServerPacketType(st.state, st.version, f.id) = "Kick"
       /\ st.state = "Game"
       /\ up
    THEN [st EXCEPT !.chat = @ + 1]
    ELSE st

\* an error branch of the loop: the own handle is disconnected, by the client reader
\* also the partner unless the packet id is missing, and the loop is left
Leave(st, cause) ==
    [st EXCEPT !.run = FALSE, !.cause = cause, !.self_closed = TRUE,
               !.partner_closed = @ \/ (st.kind = "client" /\ cause # "id")]

\* the packet limit of the client reader (proxy_handler.rs:371-384)
CountPacket(st) ==
    IF ~st.packet_limit THEN st
    ELSE LET n == st.packet_per_second + 1
         IN IF n < PacketLimit THEN [st EXCEPT !.packet_per_second = n]
            ELSE IF st.elapsed < RateWindow
                 THEN Leave([st EXCEPT !.packet_per_second = n], "rate")
                 ELSE [st EXCEPT !.packet_per_second = 0, !.elapsed = 0]

\* packet id, handle_packet and forwarding (proxy_handler.rs:386-410,
\* backend.rs:115-141); up: the partner's channel still has its receiver
Dispatch(st, f, up) ==
    IF f.kind = "empty" THEN Leave(st, "id")
    ELSE LET res == HandlePacket(st.kind, st.state, st.version, f)
         IN IF res = "error" THEN Leave(st, "codec")
            ELSE IF res = "drop" THEN QueueKickChat(st, f, up)
            ELSE IF res = "forward" /\ st.should_forward
                 THEN IF up THEN [st EXCEPT !.out = @ + 1, !.last = f]
                      ELSE IF st.kind = "client"
                           THEN [st EXCEPT !.partner_closed = TRUE, !.should_forward = FALSE]
                           ELSE Leave(st, "queue")
                 ELSE st

\* one iteration of the loop on frame f
OneFrame(st, f, up) ==
    IF f.kind = "malformed" THEN Leave(st, "read")
    ELSE LET c == CountPacket([st EXCEPT !.burst = Min(@ + 1, PacketLimit)])
         IN IF c.run THEN Dispatch(c, f, up) ELSE c

\* q more iterations on frame f after an iteration on f that ended in st, none of
\* which reaches the packet limit: each repeats what the iteration before it did
Repeat(st, f, up, q) ==
    LET nxt == Dispatch(st, f, up)
    IN [st EXCEPT !.packet_per_second = IF st.packet_limit THEN @ + q ELSE @,
                  !.burst = Min(@ + q, PacketLimit),
                  !.out = @ + q * (nxt.out - st.out),
                  !.chat = @ + q * (nxt.chat - st.chat)]

\* k iterations on k equal frames, until the loop is left
RECURSIVE ReadFrames(_, _, _, _)
ReadFrames(st, f, up, k) ==
    IF k = 0 \/ ~st.run THEN st
    ELSE LET s1 == OneFrame(st, f, up)
             q  == IF s1.packet_limit
                   THEN Min(k - 1, PacketLimit - 1 - s1.packet_per_second)
                   ELSE k - 1
         IN IF ~s1.run THEN s1
            ELSE ReadFrames(Repeat(s1, f, up, q), f, up, k - 1 - q)

\* a reader task at its first read: the client reader of handle() has the packet
\* limit (proxy_handler.rs:331), the client reader of switch_server (mod.rs:592)
\* and the backend reader have none; state is the protocol state of the reader's
\* own handle, chat counts the messages the reader itself queued on its partner
RInit ==
    /\ reader \in {[kind |-> k, packet_limit |-> l, version |-> v, run |-> TRUE,
                    cause |-> "none", self_closed |-> FALSE, partner_closed |-> FALSE,
                    should_forward |-> TRUE, packet_per_second |-> 0, elapsed |-> 0,
                    burst |-> 0, out |-> 0, last |-> NoFrame, state |-> s, chat |-> 0] :
                        k \in {"client", "backend"}, l \in BOOLEAN,
                        v \in {R1_20_2, R1_20_5}, s \in {"Game", "Config"}}
    /\ reader.kind = "backend" => ~reader.packet_limit
    /\ reader.state = "Config" => reader.kind = "backend" /\ reader.version = R1_20_2
    /\ rIdle = 0
    /\ rPartnerUp = TRUE
    /\ rInputs = 0

ReaderInput == rInputs < MaxReads /\ rInputs' = rInputs + 1

\* k frames f arrive at once and the loop reads them
FramesArrive(f, k) ==
    /\ reader.run
    /\ reader' = ReadFrames(reader, f, rPartnerUp, k)
    /\ rIdle' = 0
    /\ ReaderInput
    /\ UNCHANGED <<rPartnerUp, wvars, pvars, lvars>>

\* d ms pass without a frame
TimePasses(d) ==
    /\ reader.run
    /\ rIdle + d <= ReadTimeout
    /\ rIdle' = rIdle + d
    /\ reader' = [reader EXCEPT !.elapsed = Min(@ + d, RateWindow), !.burst = 0]
    /\ ReaderInput
    /\ UNCHANGED <<rPartnerUp, wvars, pvars, lvars>>

\* the timeout around the read expires (packets.rs:935): read_and_decode_packet
\* returns Err and the loop takes the branch of a failed read
ReadTimesOut ==
    /\ reader.run
    /\ rIdle >= ReadTimeout
    /\ reader' = Leave(reader, "timeout")
    /\ UNCHANGED <<rIdle, rPartnerUp, rInputs, wvars, pvars, lvars>>

\* the partner's writer task ends and drops the receiver
PartnerWriterExits ==
    /\ rPartnerUp
    /\ rPartnerUp' = FALSE
    /\ ReaderInput
    /\ UNCHANGED <<reader, rIdle, wvars, pvars, lvars>>

RNext ==
    \/ \E f \in Frames, k \in Bursts : FramesArrive(f, k)
    \/ \E d \in Waits : TimePasses(d)
    \/ ReadTimesOut
    \/ PartnerWriterExits

\* the reader of the other specifications: not started
RIdle ==
    /\ RInit
    /\ reader.kind = "client" /\ reader.packet_limit /\ reader.version = R1_20_5
    /\ reader.state = "Game"

\* ==================================================================== login
\* handle_login (initial_handler.rs:139-276), packet by packet

\* PacketRegistry::get_client_packet_type in the Login state (packet_ids.rs:84-89,
\* 135-155)
GetLoginPacketType(version, id) ==
    IF id \notin 0..255 THEN "None"
    ELSE CASE id = 0 -> "LoginRequest"
           [] id = 1 -> "EncryptionResponse"
           [] id = 2 -> "LoginPluginResponse"
           [] id = 3 -> "LoginAcknowledged"
           [] id = 4 /\ version >= R1_20_5 -> "CookieResponse"
           [] OTHER -> "None"

\* the packets a client sends during login and what is wrong with the body: it does
\* not decode, the user name is invalid (initial_handler.rs:178-181), the shared
\* secret does not decrypt (210-211) or has not 16 bytes (212-215), the verify token
\* differs (217-224), has_joined refuses the user (229-237)
LoginIds == {0, 1, 2, 3, 4, 300}
LoginFaults == [i \in LoginIds |->
                   IF i = 0 THEN {"none", "decode", "name"}
                   ELSE IF i = 1 THEN {"none", "decode", "decrypt", "length", "token", "session"}
                   ELSE {"none"}]
LoginFrames == {[id |-> i, why |-> w] : i \in LoginIds, w \in UNION {LoginFaults[j] : j \in LoginIds}}
                  \cap UNION {[id : {i}, why : LoginFaults[i]] : i \in LoginIds}

\* values of compression_threshold in the configuration, an i32 that is not
\* validated (mod.rs:53); 256 is the default (mod.rs:83)
Thresholds == {-2, -1, 0, 256}

\* encode_and_send_packet (packets.rs:969-992): the frame of a packet of the given
\* type as it is written with the given threshold
Written(type, compression) == [dir |-> "out", type |-> type, compressed |-> compression >= 0]

\* read_and_decode_packet (packets.rs:934-967): the framing in which a frame is read
\* with the given threshold
ReadFrame(compression) == [dir |-> "in", type |-> "frame", compressed |-> compression # -1]

\* send_encryption (initial_handler.rs:278-296)
SendEncryption(l) ==
    [l EXCEPT !.wire = Append(@, Written("EncryptionRequest", l.compression_threshold))]

\* finish_login (initial_handler.rs:298-314)
FinishLogin(l) ==
    LET compression == l.config_threshold
    IN [l EXCEPT !.compression_threshold = compression,
                 !.wire = @ \o (IF compression >= 0
                                THEN <<Written("SetCompression", -1)>> ELSE <<>>)
                            \o <<Written("LoginSuccess", compression)>>]

\* return Err(..): handle_login ends, its caller logs and drops the stream
\* (initial_handler.rs:46-51)
Fail(l, type, cause) ==
    [l EXCEPT !.result = "err", !.seen = Append(@, type), !.cause = cause]

\* send_login_disconnect(..).await.ok(), then return Err(..)
FailTold(l, type, cause) ==
    [l EXCEPT !.result = "err", !.seen = Append(@, type), !.cause = cause, !.told = TRUE,
              !.wire = Append(@, Written("Disconnect", l.compression_threshold))]

\* one iteration that returns ProxyingData for a LoginAcknowledged in any sub-state
LoginIterationLax(l, f, sent) ==
    LET type  == GetLoginPacketType(l.version, f.id)
        fault == IF f.why = "session" /\ ~l.online_mode THEN "none" ELSE f.why
    IN CASE type = "LoginRequest" ->
                IF l.login_state # "Request" THEN Fail(l, type, "order")
                ELSE IF fault = "name" THEN FailTold(l, type, fault)
                ELSE IF fault # "none" THEN Fail(l, type, fault)
                ELSE IF ~sent THEN Fail(l, type, "io")
                ELSE IF l.offline_mode_encryption \/ l.online_mode
                THEN SendEncryption([l EXCEPT !.seen = Append(@, type),
                                              !.login_state = "Encryption"])
                ELSE FinishLogin([l EXCEPT !.seen = Append(@, type),
                                           !.login_state = "LoginAck"])
         [] type = "EncryptionResponse" ->
                IF l.login_state # "Encryption" THEN Fail(l, type, "order")
                ELSE IF fault \in {"length", "token"} THEN FailTold(l, type, fault)
                ELSE IF fault # "none" THEN Fail(l, type, fault)
                ELSE IF ~sent THEN Fail(l, type, "io")
                ELSE FinishLogin([l EXCEPT !.seen = Append(@, type),
                                           !.login_state = "LoginAck"])
         [] type = "LoginAcknowledged" ->
                [l EXCEPT !.result = "ok", !.seen = Append(@, type)]
         [] type = "None" -> Fail(l, type, "id")
         [] OTHER -> Fail(l, type, "type")

\* one iteration of the loop on packet f; sent: the answer of the branch could be
\* written to the socket (send_encryption, finish_login)
LoginIteration(l, f, sent) ==
    LET type  == GetLoginPacketType(l.version, f.id)
        fault == IF f.why = "session" /\ ~l.online_mode THEN "none" ELSE f.why
    IN CASE type = "LoginRequest" ->
                IF l.login_state # "Request" THEN Fail(l, type, "order")
                ELSE IF fault = "name" THEN FailTold(l, type, fault)
                ELSE IF fault # "none" THEN Fail(l, type, fault)
                ELSE IF ~sent THEN Fail(l, type, "io")
                ELSE IF l.offline_mode_encryption \/ l.online_mode
                THEN SendEncryption([l EXCEPT !.seen = Append(@, type),
                                              !.login_state = "Encryption"])
                ELSE FinishLogin([l EXCEPT !.seen = Append(@, type),
                                           !.login_state = "LoginAck"])
         [] type = "EncryptionResponse" ->
                IF l.login_state # "Encryption" THEN Fail(l, type, "order")
                ELSE IF fault \in {"length", "token"} THEN FailTold(l, type, fault)
                ELSE IF fault # "none" THEN Fail(l, type, fault)
                ELSE IF ~sent THEN Fail(l, type, "io")
                ELSE FinishLogin([l EXCEPT !.seen = Append(@, type),
                                           !.login_state = "LoginAck"])
         [] type = "LoginAcknowledged" ->
                IF l.login_state # "LoginAck" THEN Fail(l, type, "order")
                ELSE [l EXCEPT !.result = "ok", !.seen = Append(@, type)]
         [] type = "None" -> Fail(l, type, "id")
         [] OTHER -> Fail(l, type, "type")

\* handle_login is entered after a handshake of a supported version
LInit ==
    login \in {[login_state |-> "Request", online_mode |-> o, offline_mode_encryption |-> e,
                version |-> v, result |-> "none", seen |-> <<>>, cause |-> "none",
                told |-> FALSE, config_threshold |-> c, compression_threshold |-> -1,
                wire |-> <<>>] :
                    o \in BOOLEAN, e \in BOOLEAN, v \in {R1_20_2, R1_20_5},
                    c \in Thresholds}

\* the client frames its packets as it was told: compressed once it has received
\* SetCompression
ClientCompresses(l) ==
    \E k \in 1..Len(l.wire) : l.wire[k].type = "SetCompression"

\* the client sends packet f; read in another framing than the client's, the frame
\* does not decode and the read fails (initial_handler.rs:160)
LoginPacket(f, sent) ==
    /\ login.result = "none"
    /\ LET read == ReadFrame(login.compression_threshold)
           l    == [login EXCEPT !.wire = Append(@, read)]
       IN login' = IF read.compressed # ClientCompresses(login)
                   THEN [l EXCEPT !.result = "err", !.cause = "read"]
                   ELSE LoginIteration(l, f, sent)
    /\ UNCHANGED <<wvars, pvars, rvars, status, lookup, codec, throttle, command, online>>

\* read_and_decode_packet or the decoding of the packet id fails
LoginReadFails ==
    /\ login.result = "none"
    /\ login' = [login EXCEPT !.result = "err", !.cause = "read"]
    /\ UNCHANGED <<wvars, pvars, rvars, status, lookup, codec, throttle, command, online>>

LNext ==
    \/ \E f \in LoginFrames, sent \in BOOLEAN : LoginPacket(f, sent)
    \/ LoginReadFails

\* ================================================================= registry
\* PacketRegistry (packet_ids.rs:52-387)

\* SUPPORTED_VERSIONS (version.rs:120-123) and ProtocolState (packets.rs:21-26)
SupportedVersions == {R1_20_2, R1_20_3, R1_20_5, R1_21, R1_21_2, R1_21_4}
ProtocolStates == {"Handshake", "Login", "Config", "Game"}

\* ServerPacketType and ClientPacketType (packet_ids.rs:9-48)
PacketTypes ==
    [Server |-> {"LoginDisconnect", "EncryptionRequest", "LoginPluginRequest",
                 "CookieRequest", "LoginSuccess", "SetCompression", "StartConfiguration",
                 "Kick", "ServerCustomPayload", "FinishConfiguration", "BundleDelimiter",
                 "SystemChatMessage", "Commands", "TabCompleteResponse"},
     Client |-> {"Handshake", "LoginRequest", "EncryptionResponse", "LoginPluginResponse",
                 "CookieResponse", "LoginAcknowledged", "ClientCustomPayload",
                 "ConfigurationAck", "FinishConfiguration", "ClientSettings",
                 "UnsignedClientCommand", "TabCompleteRequest"}]

\* the entries of the begin! blocks in the order in which register_packets pushes
\* them: the packet has the wire id from version ver on (packet_ids.rs:130-363)
Entries == <<
    [side |-> "Client", state |-> "Handshake", type |-> "Handshake", ver |-> R1_8, id |-> 0],
    [side |-> "Client", state |-> "Login", type |-> "LoginRequest", ver |-> R1_8, id |-> 0],
    [side |-> "Client", state |-> "Login", type |-> "EncryptionResponse", ver |-> R1_8, id |-> 1],
    [side |-> "Client", state |-> "Login", type |-> "LoginPluginResponse", ver |-> R1_13, id |-> 2],
    [side |-> "Client", state |-> "Login", type |-> "LoginAcknowledged", ver |-> R1_20_2, id |-> 3],
    [side |-> "Client", state |-> "Login", type |-> "CookieResponse", ver |-> R1_20_5, id |-> 4],
    [side |-> "Server", state |-> "Login", type |-> "LoginDisconnect", ver |-> R1_8, id |-> 0],
    [side |-> "Server", state |-> "Login", type |-> "EncryptionRequest", ver |-> R1_8, id |-> 1],
    [side |-> "Server", state |-> "Login", type |-> "LoginSuccess", ver |-> R1_8, id |-> 2],
    [side |-> "Server", state |-> "Login", type |-> "SetCompression", ver |-> R1_8, id |-> 3],
    [side |-> "Server", state |-> "Login", type |-> "LoginPluginRequest", ver |-> R1_13, id |-> 4],
    [side |-> "Server", state |-> "Login", type |-> "CookieRequest", ver |-> R1_20_5, id |-> 5],
    [side |-> "Client", state |-> "Config", type |-> "ClientSettings", ver |-> R1_20_2, id |-> 0],
    [side |-> "Client", state |-> "Config", type |-> "ClientCustomPayload", ver |-> R1_20_2, id |-> 1],
    [side |-> "Client", state |-> "Config", type |-> "ClientCustomPayload", ver |-> R1_20_5, id |-> 2],
    [side |-> "Client", state |-> "Config", type |-> "FinishConfiguration", ver |-> R1_20_2, id |-> 2],
    [side |-> "Client", state |-> "Config", type |-> "FinishConfiguration", ver |-> R1_20_5, id |-> 3],
    [side |-> "Server", state |-> "Config", type |-> "CookieRequest", ver |-> R1_20_5, id |-> 0],
    [side |-> "Server", state |-> "Config", type |-> "ServerCustomPayload", ver |-> R1_20_2, id |-> 0],
    [side |-> "Server", state |-> "Config", type |-> "ServerCustomPayload", ver |-> R1_20_5, id |-> 1],
    [side |-> "Server", state |-> "Config", type |-> "Kick", ver |-> R1_20_2, id |-> 1],
    [side |-> "Server", state |-> "Config", type |-> "Kick", ver |-> R1_20_5, id |-> 2],
    [side |-> "Server", state |-> "Config", type |-> "FinishConfiguration", ver |-> R1_20_2, id |-> 2],
    [side |-> "Server", state |-> "Config", type |-> "FinishConfiguration", ver |-> R1_20_5, id |-> 3],
    [side |-> "Client", state |-> "Game", type |-> "ClientSettings", ver |-> R1_19_4, id |-> 8],
    [side |-> "Client", state |-> "Game", type |-> "ClientSettings", ver |-> R1_20_2, id |-> 9],
    [side |-> "Client", state |-> "Game", type |-> "ClientSettings", ver |-> R1_20_5, id |-> 10],
    [side |-> "Client", state |-> "Game", type |-> "ClientSettings", ver |-> R1_21_2, id |-> 12],
    [side |-> "Client", state |-> "Game", type |-> "UnsignedClientCommand", ver |-> R1_20_5, id |-> 4],
    [side |-> "Client", state |-> "Game", type |-> "UnsignedClientCommand", ver |-> R1_21_2, id |-> 5],
    [side |-> "Client", state |-> "Game", type |-> "TabCompleteRequest", ver |-> R1_8, id |-> 20],
    [side |-> "Client", state |-> "Game", type |-> "TabCompleteRequest", ver |-> R1_9, id |-> 1],
    [side |-> "Client", state |-> "Game", type |-> "TabCompleteRequest", ver |-> R1_12, id |-> 2],
    [side |-> "Client", state |-> "Game", type |-> "TabCompleteRequest", ver |-> R1_12_1, id |-> 1],
    [side |-> "Client", state |-> "Game", type |-> "TabCompleteRequest", ver |-> R1_13, id |-> 5],
    [side |-> "Client", state |-> "Game", type |-> "TabCompleteRequest", ver |-> R1_14, id |-> 6],
    [side |-> "Client", state |-> "Game", type |-> "TabCompleteRequest", ver |-> R1_19, id |-> 8],
    [side |-> "Client", state |-> "Game", type |-> "TabCompleteRequest", ver |-> R1_19_1, id |-> 9],
    [side |-> "Client", state |-> "Game", type |-> "TabCompleteRequest", ver |-> R1_19_3, id |-> 8],
    [side |-> "Client", state |-> "Game", type |-> "TabCompleteRequest", ver |-> R1_19_4, id |-> 9],
    [side |-> "Client", state |-> "Game", type |-> "TabCompleteRequest", ver |-> R1_20_2, id |-> 10],
    [side |-> "Client", state |-> "Game", type |-> "TabCompleteRequest", ver |-> R1_20_5, id |-> 11],
    [side |-> "Client", state |-> "Game", type |-> "TabCompleteRequest", ver |-> R1_21_2, id |-> 13],
    [side |-> "Client", state |-> "Game", type |-> "ConfigurationAck", ver |-> R1_20_2, id |-> 11],
    [side |-> "Client", state |-> "Game", type |-> "ConfigurationAck", ver |-> R1_20_5, id |-> 12],
    [side |-> "Client", state |-> "Game", type |-> "ConfigurationAck", ver |-> R1_21_2, id |-> 14],
    [side |-> "Client", state |-> "Game", type |-> "ClientCustomPayload", ver |-> R1_8, id |-> 23],
    [side |-> "Client", state |-> "Game", type |-> "ClientCustomPayload", ver |-> R1_9, id |-> 9],
    [side |-> "Client", state |-> "Game", type |-> "ClientCustomPayload", ver |-> R1_12, id |-> 10],
    [side |-> "Client", state |-> "Game", type |-> "ClientCustomPayload", ver |-> R1_12_1, id |-> 9],
    [side |-> "Client", state |-> "Game", type |-> "ClientCustomPayload", ver |-> R1_13, id |-> 10],
    [side |-> "Client", state |-> "Game", type |-> "ClientCustomPayload", ver |-> R1_14, id |-> 11],
    [side |-> "Client", state |-> "Game", type |-> "ClientCustomPayload", ver |-> R1_17, id |-> 10],
    [side |-> "Client", state |-> "Game", type |-> "ClientCustomPayload", ver |-> R1_19, id |-> 12],
    [side |-> "Client", state |-> "Game", type |-> "ClientCustomPayload", ver |-> R1_19_1, id |-> 13],
    [side |-> "Client", state |-> "Game", type |-> "ClientCustomPayload", ver |-> R1_19_3, id |-> 12],
    [side |-> "Client", state |-> "Game", type |-> "ClientCustomPayload", ver |-> R1_19_4, id |-> 13],
    [side |-> "Client", state |-> "Game", type |-> "ClientCustomPayload", ver |-> R1_20_2, id |-> 15],
    [side |-> "Client", state |-> "Game", type |-> "ClientCustomPayload", ver |-> R1_20_3, id |-> 16],
    [side |-> "Client", state |-> "Game", type |-> "ClientCustomPayload", ver |-> R1_20_5, id |-> 18],
    [side |-> "Client", state |-> "Game", type |-> "ClientCustomPayload", ver |-> R1_21_2, id |-> 20],
    [side |-> "Server", state |-> "Game", type |-> "CookieRequest", ver |-> R1_20_5, id |-> 22],
    [side |-> "Server", state |-> "Game", type |-> "ServerCustomPayload", ver |-> R1_8, id |-> 63],
    [side |-> "Server", state |-> "Game", type |-> "ServerCustomPayload", ver |-> R1_9, id |-> 24],
    [side |-> "Server", state |-> "Game", type |-> "ServerCustomPayload", ver |-> R1_13, id |-> 25],
    [side |-> "Server", state |-> "Game", type |-> "ServerCustomPayload", ver |-> R1_14, id |-> 24],
    [side |-> "Server", state |-> "Game", type |-> "ServerCustomPayload", ver |-> R1_15, id |-> 25],
    [side |-> "Server", state |-> "Game", type |-> "ServerCustomPayload", ver |-> R1_16, id |-> 24],
    [side |-> "Server", state |-> "Game", type |-> "ServerCustomPayload", ver |-> R1_16_2, id |-> 23],
    [side |-> "Server", state |-> "Game", type |-> "ServerCustomPayload", ver |-> R1_17, id |-> 24],
    [side |-> "Server", state |-> "Game", type |-> "ServerCustomPayload", ver |-> R1_19, id |-> 21],
    [side |-> "Server", state |-> "Game", type |-> "ServerCustomPayload", ver |-> R1_19_1, id |-> 22],
    [side |-> "Server", state |-> "Game", type |-> "ServerCustomPayload", ver |-> R1_19_3, id |-> 21],
    [side |-> "Server", state |-> "Game", type |-> "ServerCustomPayload", ver |-> R1_19_4, id |-> 23],
    [side |-> "Server", state |-> "Game", type |-> "ServerCustomPayload", ver |-> R1_20_2, id |-> 24],
    [side |-> "Server", state |-> "Game", type |-> "ServerCustomPayload", ver |-> R1_20_5, id |-> 25],
    [side |-> "Server", state |-> "Game", type |-> "Kick", ver |-> R1_8, id |-> 64],
    [side |-> "Server", state |-> "Game", type |-> "Kick", ver |-> R1_9, id |-> 26],
    [side |-> "Server", state |-> "Game", type |-> "Kick", ver |-> R1_13, id |-> 27],
    [side |-> "Server", state |-> "Game", type |-> "Kick", ver |-> R1_14, id |-> 26],
    [side |-> "Server", state |-> "Game", type |-> "Kick", ver |-> R1_15, id |-> 27],
    [side |-> "Server", state |-> "Game", type |-> "Kick", ver |-> R1_16, id |-> 26],
    [side |-> "Server", state |-> "Game", type |-> "Kick", ver |-> R1_16_2, id |-> 25],
    [side |-> "Server", state |-> "Game", type |-> "Kick", ver |-> R1_17, id |-> 26],
    [side |-> "Server", state |-> "Game", type |-> "Kick", ver |-> R1_19, id |-> 23],
    [side |-> "Server", state |-> "Game", type |-> "Kick", ver |-> R1_19_1, id |-> 25],
    [side |-> "Server", state |-> "Game", type |-> "Kick", ver |-> R1_19_3, id |-> 23],
    [side |-> "Server", state |-> "Game", type |-> "Kick", ver |-> R1_19_4, id |-> 26],
    [side |-> "Server", state |-> "Game", type |-> "Kick", ver |-> R1_20_2, id |-> 27],
    [side |-> "Server", state |-> "Game", type |-> "Kick", ver |-> R1_20_5, id |-> 29],
    [side |-> "Server", state |-> "Game", type |-> "StartConfiguration", ver |-> R1_20_2, id |-> 101],
    [side |-> "Server", state |-> "Game", type |-> "StartConfiguration", ver |-> R1_20_3, id |-> 103],
    [side |-> "Server", state |-> "Game", type |-> "StartConfiguration", ver |-> R1_20_5, id |-> 105],
    [side |-> "Server", state |-> "Game", type |-> "StartConfiguration", ver |-> R1_21_2, id |-> 112],
    [side |-> "Server", state |-> "Game", type |-> "SystemChatMessage", ver |-> R1_19_4, id |-> 100],
    [side |-> "Server", state |-> "Game", type |-> "SystemChatMessage", ver |-> R1_20_2, id |-> 103],
    [side |-> "Server", state |-> "Game", type |-> "SystemChatMessage", ver |-> R1_20_3, id |-> 105],
    [side |-> "Server", state |-> "Game", type |-> "SystemChatMessage", ver |-> R1_20_5, id |-> 108],
    [side |-> "Server", state |-> "Game", type |-> "SystemChatMessage", ver |-> R1_21_2, id |-> 115],
    [side |-> "Server", state |-> "Game", type |-> "BundleDelimiter", ver |-> R1_19_4, id |-> 0],
    [side |-> "Server", state |-> "Game", type |-> "Commands", ver |-> R1_13, id |-> 17],
    [side |-> "Server", state |-> "Game", type |-> "Commands", ver |-> R1_15, id |-> 18],
    [side |-> "Server", state |-> "Game", type |-> "Commands", ver |-> R1_16, id |-> 17],
    [side |-> "Server", state |-> "Game", type |-> "Commands", ver |-> R1_16_2, id |-> 16],
    [side |-> "Server", state |-> "Game", type |-> "Commands", ver |-> R1_17, id |-> 18],
    [side |-> "Server", state |-> "Game", type |-> "Commands", ver |-> R1_19, id |-> 15],
    [side |-> "Server", state |-> "Game", type |-> "Commands", ver |-> R1_19_3, id |-> 14],
    [side |-> "Server", state |-> "Game", type |-> "Commands", ver |-> R1_19_4, id |-> 16],
    [side |-> "Server", state |-> "Game", type |-> "Commands", ver |-> R1_20_2, id |-> 17],
    [side |-> "Server", state |-> "Game", type |-> "TabCompleteResponse", ver |-> R1_8, id |-> 58],
    [side |-> "Server", state |-> "Game", type |-> "TabCompleteResponse", ver |-> R1_9, id |-> 14],
    [side |-> "Server", state |-> "Game", type |-> "TabCompleteResponse", ver |-> R1_13, id |-> 16],
    [side |-> "Server", state |-> "Game", type |-> "TabCompleteResponse", ver |-> R1_15, id |-> 17],
    [side |-> "Server", state |-> "Game", type |-> "TabCompleteResponse", ver |-> R1_16, id |-> 16],
    [side |-> "Server", state |-> "Game", type |-> "TabCompleteResponse", ver |-> R1_16_2, id |-> 15],
    [side |-> "Server", state |-> "Game", type |-> "TabCompleteResponse", ver |-> R1_17, id |-> 17],
    [side |-> "Server", state |-> "Game", type |-> "TabCompleteResponse", ver |-> R1_19, id |-> 14],
    [side |-> "Server", state |-> "Game", type |-> "TabCompleteResponse", ver |-> R1_19_3, id |-> 13],
    [side |-> "Server", state |-> "Game", type |-> "TabCompleteResponse", ver |-> R1_19_4, id |-> 15],
    [side |-> "Server", state |-> "Game", type |-> "TabCompleteResponse", ver |-> R1_20_2, id |-> 16] >>

\* the entry the loop over list.iter().rev() stops at (packet_ids.rs:365-385): the
\* last one pushed for (state, type) whose range holds the version; 0 if none
Selected(side, state, version, type) ==
    LET hits == {k \in 1..Len(Entries) :
                    /\ Entries[k].side = side /\ Entries[k].state = state
                    /\ Entries[k].type = type /\ Entries[k].ver <= version}
    IN IF hits = {} THEN 0 ELSE CHOOSE k \in hits : \A j \in hits : j <= k

\* get_server_packet_id and get_client_packet_id (packet_ids.rs:69-71, 80-82): the
\* maps hold supported versions only; -1 stands for None
GetPacketId(side, state, version, type) ==
    IF version \notin SupportedVersions \/ Selected(side, state, version, type) = 0
    THEN -1
    ELSE Entries[Selected(side, state, version, type)].id

\* a look-up of the type that leaves the protocol state out of the key
GetPacketTypesAnyState(side, state, version, id) ==
    IF id \notin 0..255 THEN {}
    ELSE {t \in PacketTypes[side] :
             \E st \in ProtocolStates : GetPacketId(side, st, version, t) = id}

\* get_server_packet_type and get_client_packet_type (packet_ids.rs:73-78, 84-89):
\* the types inserted under (state, id, version); were there several, the one
\* inserted last would stay, in the unspecified order of the HashMap's iteration
GetPacketTypes(side, state, version, id) ==
    IF id \notin 0..255 THEN {}
    ELSE {t \in PacketTypes[side] : GetPacketId(side, state, version, t) = id}

\* one look-up of a wire id and of the type registered for that wire id
RegInit ==
    /\ lookup \in {[side |-> sd, state |-> st, version |-> v, type |-> t, id |-> -1,
                 back |-> "None", done |-> FALSE] :
                    sd \in {"Server", "Client"}, st \in ProtocolStates,
                    v \in SupportedVersions, t \in PacketTypes.Server \cup PacketTypes.Client}
    /\ lookup.type \in PacketTypes[lookup.side]

LookUp ==
    /\ ~lookup.done
    /\ LET id    == GetPacketId(lookup.side, lookup.state, lookup.version, lookup.type)
           types == GetPacketTypes(lookup.side, lookup.state, lookup.version, id)
       IN \E t \in (IF types = {} THEN {"None"} ELSE types) :
             lookup' = [lookup EXCEPT !.id = id, !.back = t, !.done = TRUE]
    /\ UNCHANGED <<wvars, pvars, rvars, login, status, codec, throttle, command, online>>

RegNext == LookUp

\* the look-up of the other specifications: not made
RegIdle ==
    /\ RegInit
    /\ lookup.side = "Server" /\ lookup.state = "Game" /\ lookup.version = R1_20_5
    /\ lookup.type = "Kick"

\* =================================================================== codec
\* compress and decompress (compression.rs:7-57)

\* a payload of len bytes; content tells payloads of one length apart
Payload(len, content) == [kind |-> "raw", len |-> len, content |-> content]
NoPayload == [kind |-> "none", len |-> 0, content |-> 0]

\* the zlib stream of a payload (ZlibEncoder::finish): bytes that are not the
\* payload's, and never none, from which ZlibDecoder reads the payload back
Deflate(p) == [kind |-> "zlib", of |-> p]

\* the lengths, thresholds and sizes of the buffer read_to_end offers to read()
PayloadLengths == {0, 1, 255, 256, SizeLimit - 1, SizeLimit, SizeLimit + 1}
CompressionThresholds == {0, 1, 256}
ReadSizes == {SizeLimit \div 4, SizeLimit, 2 * SizeLimit}

\* compress (compression.rs:7-21): data-length 0 and the raw payload below the
\* threshold, else the payload's length and its zlib stream
Compress(p, threshold) ==
    IF p.len < threshold
    THEN [data_length |-> 0, rest |-> p]
    ELSE [data_length |-> p.len, rest |-> Deflate(p)]

\* read_to_end on SizeLimitedReader (compression.rs:40-52) with left bytes still
\* to be inflated: each read fails when remaining is 0 and else hands out at most
\* remaining bytes; the loop ends when a read returns 0 bytes
RECURSIVE ReadToEnd(_, _, _)
ReadToEnd(left, remaining, size) ==
    IF remaining = 0 THEN "exceeded"
    ELSE IF left = 0 THEN "ok"
    ELSE LET n == Min(Min(remaining, size), left)
         IN ReadToEnd(left - n, remaining - n, size)

\* decompress (compression.rs:23-33): with data-length 0 the rest of the frame is
\* the payload, else the rest is inflated through the SizeLimitedReader
Decompress(frame, size) ==
    IF frame.data_length = 0 THEN [result |-> "ok", dest |-> frame.rest]
    ELSE IF frame.rest.kind # "zlib" THEN [result |-> "corrupt", dest |-> NoPayload]
    ELSE IF ReadToEnd(frame.rest.of.len, SizeLimit, size) = "ok"
         THEN [result |-> "ok", dest |-> frame.rest.of]
         ELSE [result |-> "exceeded", dest |-> NoPayload]

CodecInit ==
    /\ codec \in {[payload |-> Payload(n, c), threshold |-> t, size |-> z, phase |-> "plain",
                    frame |-> [data_length |-> 0, rest |-> NoPayload],
                    result |-> "none", dest |-> NoPayload] :
                       n \in PayloadLengths, c \in {0, 1}, t \in CompressionThresholds,
                       z \in ReadSizes}
    /\ codec.payload.len = 0 => codec.payload.content = 0

\* the sender frames the payload
Compresses ==
    /\ codec.phase = "plain"
    /\ codec' = [codec EXCEPT !.frame = Compress(codec.payload, codec.threshold),
                              !.phase = "framed"]
    /\ UNCHANGED <<wvars, pvars, rvars, login, status, lookup, throttle, command, online>>

\* the receiver reads the frame
Decompresses ==
    /\ codec.phase = "framed"
    /\ LET r == Decompress(codec.frame, codec.size)
       IN codec' = [codec EXCEPT !.result = r.result, !.dest = r.dest, !.phase = "read"]
    /\ UNCHANGED <<wvars, pvars, rvars, login, status, lookup, throttle, command, online>>

CodecNext == Compresses \/ Decompresses

\* the codec of the other specifications: unused
CodecIdle ==
    /\ CodecInit
    /\ codec.payload = Payload(0, 0) /\ codec.threshold = 256 /\ codec.size = SizeLimit

\* ================================================================ listener
\* the accept loop of run_server (mod.rs:353-394) with the throttle enabled
\* (connection_throttle_time > 0)

IPs == {"a", "b"}
NoAccept == [ip |-> "none", n |-> 0, handed |-> FALSE]

\* the loop is at accept(): map holds the u8 counters (an address without an entry
\* counts 0), elapsed is now - time in ms, capped at the interval; window counts the
\* connections of each address since the instant stored in time (history), last is
\* the connection accepted last. An address may have made 254 connections in the
\* window already.
ThrottleInit ==
    throttle \in {[map |-> [i \in IPs |-> IF i = "a" THEN c ELSE 0],
                   window |-> [i \in IPs |-> IF i = "a" THEN c ELSE 0],
                   elapsed |-> 0, limit |-> l, accepts |-> 0, task |-> "run",
                   last |-> NoAccept] : c \in {0, 254}, l \in {1, 2}}

\* a connection of address ip is accepted (mod.rs:367-388). The u8 addition at 255
\* panics in a build with overflow checks and wraps to 0 in one without
Accepts(ip) ==
    /\ throttle.task = "run"
    /\ throttle.accepts < MaxAccepts
    /\ LET roll   == throttle.elapsed >= ThrottleTime
           seen   == IF roll THEN [i \in IPs |-> IF i = ip THEN 1 ELSE 0]
                     ELSE [throttle.window EXCEPT ![ip] = @ + 1]
           t      == [throttle EXCEPT !.accepts = @ + 1, !.window = seen,
                                      !.elapsed = IF roll THEN 0 ELSE @]
       IN \/ /\ throttle.map[ip] = 255
             /\ throttle' = [t EXCEPT !.task = "panicked",
                                      !.last = [ip |-> ip, n |-> seen[ip], handed |-> FALSE]]
          \/ LET counter == IF roll THEN 0 ELSE (throttle.map[ip] + 1) % 256
             IN throttle' =
                  IF counter > throttle.limit
                  THEN [t EXCEPT !.map[ip] = counter,
                                 !.last = [ip |-> ip, n |-> seen[ip], handed |-> FALSE]]
                  ELSE [t EXCEPT !.map = IF roll THEN [i \in IPs |-> 0]
                                         ELSE [throttle.map EXCEPT ![ip] = counter],
                                 !.last = [ip |-> ip, n |-> seen[ip], handed |-> TRUE]]
    /\ UNCHANGED <<wvars, pvars, rvars, login, status, lookup, codec, command, online>>

\* d ms pass without a connection
ThrottleTimePasses(d) ==
    /\ throttle.task = "run"
    /\ throttle.elapsed < ThrottleTime
    /\ throttle' = [throttle EXCEPT !.elapsed = Min(@ + d, ThrottleTime)]
    /\ UNCHANGED <<wvars, pvars, rvars, login, status, lookup, codec, command, online>>

ThrottleNext ==
    \/ \E ip \in IPs : Accepts(ip)
    \/ \E d \in {ThrottleTime - 1, ThrottleTime} : ThrottleTimePasses(d)

\* the listener of the other specifications: no connection yet
ThrottleIdle ==
    /\ ThrottleInit
    /\ throttle.map["a"] = 0 /\ throttle.limit = 2

\* ================================================================ commands
\* an UnsignedClientCommand in ClientPacketHandler::handle_packet
\* (packet_handler.rs:42-59) and in CommandRegistry::execute (command/mod.rs:124-139)

\* the characters of a line: two letters, the space and the tab; a line is a
\* sequence of them
Letters == {"s", "x"}
Whitespace == {" ", "\t"}
Lines == UNION {[1..n -> Letters \cup Whitespace] : n \in 0..MaxLine}

\* commands_by_name: names are made of alphanumerics and '_' (command/mod.rs:62-64)
CommandsByName == {<<"s">>}

\* the first index from i on whose character is in set, Len + 1 if there is none
RECURSIVE Find(_, _, _)
Find(line, i, set) ==
    IF i > Len(line) THEN Len(line) + 1
    ELSE IF line[i] \in set THEN i
    ELSE Find(line, i + 1, set)

\* line.split_ascii_whitespace().next().unwrap_or(""): the first run of characters
\* that are no whitespace
FirstWord(line) ==
    LET from == Find(line, 1, Letters)
        to   == Find(line, from, Whitespace)
    IN SubSeq(line, from, to - 1)

\* command.splitn(2, ' ').next().unwrap(): what precedes the first space
SplitnName(line) == SubSeq(line, 1, Find(line, 1, {" "}) - 1)

\* CommandRegistry::execute: TRUE when a command was found and run
Execute(line) ==
    IF line = <<>> THEN FALSE ELSE SplitnName(line) \in CommandsByName

\* the UnsignedClientCommand arm: forward tells the result of handle_packet,
\* spawned whether execute was handed to a blocking task, executed what it returned
HandleCommand(line) ==
    IF FirstWord(line) \notin CommandsByName
    THEN [forward |-> TRUE, spawned |-> FALSE, executed |-> FALSE]
    ELSE [forward |-> FALSE, spawned |-> TRUE, executed |-> Execute(line)]

CommandInit ==
    command \in {[line |-> l, done |-> FALSE, forward |-> FALSE, spawned |-> FALSE,
                  executed |-> FALSE] : l \in Lines}

ClientCommand ==
    /\ ~command.done
    /\ LET r == HandleCommand(command.line)
       IN command' = [command EXCEPT !.done = TRUE, !.forward = r.forward,
                                     !.spawned = r.spawned, !.executed = r.executed]
    /\ UNCHANGED <<wvars, pvars, rvars, login, status, lookup, codec, throttle, online>>

CommandNext == ClientCommand

\* the command of the other specifications: none was sent
CommandIdle ==
    /\ CommandInit
    /\ command.line = <<>>

\* ============================================================== lookup maps
\* the registration of handle() (proxy_handler.rs:233-250) and the cleanup task
\* (proxy_handler.rs:295-317) of several logins on the maps of ProxyServer

Logins == 1..MaxLogins
Names == {"Bob", "bob", "amy"}
Uuids == {1, 2}

\* str::to_ascii_lowercase on the names at hand
ToAsciiLowercase(name) == IF name = "Bob" THEN "bob" ELSE name

\* the test of the registration with the name compared as it was sent
AlreadyConnectedExactName(p) ==
    \/ online.by_uuid[online.ident[p].uuid] # 0
    \/ /\ online.ident[p].name = ToAsciiLowercase(online.ident[p].name)
       /\ online.by_name[online.ident[p].name] # 0

\* players_by_uuid.contains_key(&uuid) || players_by_name.contains_key(&lowercase)
AlreadyConnected(p) ==
    \/ online.by_uuid[online.ident[p].uuid] # 0
    \/ online.by_name[ToAsciiLowercase(online.ident[p].name)] # 0

\* the maps hold a weak handle of the player, here the login's number, 0: no entry;
\* lock: the login holding both write locks (taken in the same order by every
\* task), closed: the logins whose client handle was disconnected by a kick
OnlineInit ==
    online \in {[by_name |-> [n \in {ToAsciiLowercase(m) : m \in Names} |-> 0],
                 by_uuid |-> [u \in Uuids |-> 0],
                 player_count |-> 0, lock |-> 0,
                 pc |-> [p \in Logins |-> "login"],
                 cleanup |-> {}, closed |-> {},
                 ident |-> i] : i \in [Logins -> [name : Names, uuid : Uuids]]}

OnlineFrame == UNCHANGED <<wvars, pvars, rvars, login, status, lookup, codec, throttle, command>>

\* player_by_name.write().await, player_by_uuid.write().await
LoginLocks(p) ==
    /\ online.pc[p] = "login"
    /\ online.lock = 0
    /\ online' = [online EXCEPT !.lock = p, !.pc[p] = "check"]
    /\ OnlineFrame

\* the test, then the two inserts
LoginChecks(p) ==
    /\ online.pc[p] = "check"
    /\ online' =
         IF AlreadyConnected(p)
         THEN [online EXCEPT !.pc[p] = "kick"]
         ELSE [online EXCEPT
                 !.by_uuid[online.ident[p].uuid] = p,
                 !.by_name[ToAsciiLowercase(online.ident[p].name)] = p,
                 !.pc[p] = "count"]
    /\ OnlineFrame

\* player_count += 1, the guards are dropped; the cleanup task is spawned once the
\* priority loop is done (proxy_handler.rs:295)
LoginCounts(p) ==
    /\ online.pc[p] = "count"
    /\ online' = [online EXCEPT !.player_count = @ + 1, !.lock = 0,
                                !.pc[p] = "registered", !.cleanup = @ \cup {p}]
    /\ OnlineFrame

\* player.kick under the guards (mod.rs:458-471), then return
LoginKicked(p) ==
    /\ online.pc[p] = "kick"
    /\ online' = [online EXCEPT !.closed = @ \cup {p}, !.lock = 0, !.pc[p] = "kicked"]
    /\ OnlineFrame

\* the cleanup task: write_task.await has returned, the locks are taken
LeaveLocks(p) ==
    /\ online.pc[p] = "registered"
    /\ p \in online.cleanup
    /\ online.lock = 0
    /\ online' = [online EXCEPT !.lock = p, !.pc[p] = "remove"]
    /\ OnlineFrame

\* the cleanup without the remove on player_by_uuid
LeaveRemovesNameOnly(p) ==
    /\ online.pc[p] = "remove"
    /\ online' = [online EXCEPT
                     !.by_name[ToAsciiLowercase(online.ident[p].name)] = 0,
                     !.pc[p] = "uncount"]
    /\ OnlineFrame

\* player_by_name.remove, player_by_uuid.remove
LeaveRemoves(p) ==
    /\ online.pc[p] = "remove"
    /\ online' = [online EXCEPT
                     !.by_name[ToAsciiLowercase(online.ident[p].name)] = 0,
                     !.by_uuid[online.ident[p].uuid] = 0,
                     !.pc[p] = "uncount"]
    /\ OnlineFrame

\* player_count -= 1, the guards are dropped
LeaveCounts(p) ==
    /\ online.pc[p] = "uncount"
    /\ online' = [online EXCEPT !.player_count = @ - 1, !.lock = 0, !.pc[p] = "gone"]
    /\ OnlineFrame

OnlineNext ==
    \E p \in Logins :
        \/ LoginLocks(p) \/ LoginChecks(p) \/ LoginCounts(p) \/ LoginKicked(p)
        \/ LeaveLocks(p) \/ LeaveRemoves(p) \/ LeaveCounts(p)

\* the maps of the other specifications: the logins all have one identity
OnlineIdle ==
    /\ OnlineInit
    /\ \A p \in Logins : online.ident[p] = [name |-> "amy", uuid |-> 1]

\* ------------------------------------------------------------------- status
\* handle_status (initial_handler.rs:63-103), packet by packet

\* what a client sends: a length prefix, a packet id, and with length 9 eight more
\* bytes, the time of a ping
StatusPackets == [len : {1, 2, 9}, id : {0, 1, 2}, time : 0..MaxPing]
StatusRequest == [len |-> 1, id |-> 0, time |-> 0]
Ping(t) == [len |-> 9, id |-> 1, time |-> t]

\* one iteration of the loop on packet p. junk: eight bytes of an earlier packet are
\* still unread and are taken for the length prefix, which the time's leading zero
\* byte makes 0. A ping of length 1 leaves read_u64 waiting for bytes.
StatusIteration(st, p) ==
    LET got == [st EXCEPT !.seen = Append(@, p)]
    IN IF st.junk \/ p.len \notin {1, 9} THEN [got EXCEPT !.result = "err"]
       ELSE CASE p.id = 0 ->
                    IF st.state = 2 THEN [got EXCEPT !.result = "err"]
                    ELSE [got EXCEPT !.state = 2, !.sent = Append(@, <<"response", st.version>>),
                                     !.junk = (p.len = 9)]
              [] p.id = 1 ->
                    IF st.state = 1 THEN [got EXCEPT !.result = "err"]
                    ELSE IF p.len = 1 THEN [got EXCEPT !.result = "stalled"]
                    ELSE [got EXCEPT !.sent = Append(@, <<"pong", p.time>>), !.result = "ok"]
              [] OTHER -> [got EXCEPT !.result = "err"]

\* handle_status is entered after a handshake with next_state = 1
SInit ==
    status \in {[version |-> v, state |-> 1, result |-> "none", seen |-> <<>>,
                 sent |-> <<>>, junk |-> FALSE] : v \in {R1_20_2, R1_20_5}}

\* the client sends packet p
StatusPacket(p) ==
    /\ status.result = "none"
    /\ p.len # 9 => p.time = 0
    /\ status' = StatusIteration(status, p)
    /\ UNCHANGED <<wvars, pvars, rvars, login, lookup, codec, throttle, command, online>>

\* the client closes the connection: the pending read fails
StatusReadFails ==
    /\ status.result \in {"none", "stalled"}
    /\ status' = [status EXCEPT !.result = "err"]
    /\ UNCHANGED <<wvars, pvars, rvars, login, lookup, codec, throttle, command, online>>

SNext ==
    \/ \E p \in StatusPackets : StatusPacket(p)
    \/ StatusReadFails

\* the status exchange of the other specifications: not begun
SIdle == SInit /\ status.version = R1_20_5

\* the login of the other specifications: not begun, the default configuration
\* (mod.rs:89-90)
LIdle ==
    /\ LInit
    /\ ~login.online_mode /\ ~login.offline_mode_encryption /\ login.version = R1_20_5
    /\ login.config_threshold = 256

\* ------------------------------------------------------------ specifications
HandleStep ==
    \/ HRegister \/ HConnect \/ HSpawnCleanup \/ HKick \/ HKickSync \/ HKickWait
    \/ HAttach \/ HInstall

CleanupStep == CleanupLock \/ CleanupRemove \/ CleanupDisconnect

ClientTaskStep == ClientWriterRecv \/ ClientWriterAborted \/ ClientRead \/ ClientReadError

BackendTaskStep(i) ==
    BackendReadError(i) \/ BackendWriterRecv(i) \/ BackendWriterAborted(i)

HookStep(i) ==
    \/ HookLock(i) \/ HookWake(i) \/ HookTry(i) \/ HookJoin(i)
    \/ HookKick(i) \/ HookKickSync(i) \/ HookKickDisconnect(i)

SwitchStep(t) ==
    \/ SwitchStart(t) \/ SwitchConnect(t) \/ SwitchNotify(t) \/ SwitchDropOn(t)
    \/ SwitchDisconnectOld(t) \/ SwitchWaitOld(t) \/ SwitchState(t)
    \/ SwitchGotoConfig(t) \/ SwitchWaitConfig(t) \/ SwitchDropOff(t)
    \/ SwitchAbortReader(t) \/ SwitchAttach(t) \/ SwitchReplay(t)
    \/ SwitchSpawnReader(t) \/ SwitchCommit(t) \/ SwitchRelease(t)

\* what the proxy's tasks do
ProxyStep ==
    \/ HandleStep
    \/ CleanupStep
    \/ ClientTaskStep
    \/ \E i \in 1..MaxConns : BackendTaskStep(i) \/ HookStep(i)
    \/ \E t \in 1..MaxSwitches : SwitchStep(t)

\* what the client, the backends and the operators of the proxy do
EnvStep ==
    \/ ClientCloses
    \/ ClientSendsSettings
    \/ CommandSwitches
    \/ \E i \in 1..MaxConns : BackendForward(i) \/ BackendCloses(i) \/ BackendReadFails(i)

Next == ProxyStep \/ EnvStep

Init == WInit /\ wKind = "client" /\ PInit /\ RIdle /\ LIdle /\ SIdle /\ RegIdle /\ CodecIdle /\ ThrottleIdle /\ CommandIdle /\ OnlineIdle

Spec == Init /\ [][Next]_vars

\* every spawned task is scheduled again and again (tokio's scheduler); the inputs
\* of EnvStep are under no obligation
Fairness ==
    /\ WF_vars(HandleStep)
    /\ WF_vars(CleanupStep)
    /\ WF_vars(ClientWriterRecv)
    /\ WF_vars(ClientWriterAborted)
    /\ WF_vars(ClientRead)
    /\ WF_vars(ClientReadError)
    /\ \A i \in 1..MaxConns :
          /\ WF_vars(BackendReadError(i))
          /\ WF_vars(BackendWriterRecv(i))
          /\ WF_vars(BackendWriterAborted(i))
          /\ WF_vars(HookStep(i))
    /\ \A t \in 1..MaxSwitches : WF_vars(SwitchStep(t))

FairSpec == Init /\ [][Next]_vars /\ Fairness

\* ===================================================== claims on the player engine

\* the switch tasks inside the section guarded by is_switching_server
SwitchSection ==
    {"start", "connect", "drop_on", "disc_old", "wait_old", "state", "wait_game",
     "goto_config", "wait_config", "drop_off", "abort_reader", "attach", "replay",
     "spawn_reader", "commit", "release"}
InSwitch == {t \in 1..MaxSwitches : switches[t].pc \in SwitchSection}
\* the switch tasks that passed wait_for_disconnect on the old server handle
PastWaitOld == (SwitchSection \ {"start", "connect", "drop_on", "disc_old", "wait_old"}) \cup {"ok"}

\* C1: at most one switch task of the player is inside the guarded section at any
\* time and the flag is set while one is; a switch task is started only by a call
\* that found the flag clear and the client handle open, so a call made while
\* is_switching is true or the handle is closed starts no task and leaves the
\* player as it was.
C1_AtMostOneSwitch ==
    /\ [](Cardinality(InSwitch) <= 1 /\ (InSwitch # {} => player.is_switching_server))
    /\ [][(\E t \in 1..MaxSwitches : switches[t].pc = "none" /\ switches'[t].pc # "none")
            => /\ ~player.is_switching_server
               /\ ~client_handle.closed
               /\ player'.is_switching_server]_vars
    /\ [][(CommandSwitches /\ (player.is_switching_server \/ client_handle.closed))
            => UNCHANGED <<client_handle, player, proxy, hnd, cleanup, conns, switches>>]_vars

\* an exit hook called switch_server while a switch was in progress and got None
C1_HookRefusedDuringSwitch ==
    /\ InSwitch # {}
    /\ ~client_handle.closed
    /\ PlayerAlive
    /\ \E i \in 1..MaxConns :
          /\ conns[i].hook = "done"
          /\ conns[i].join = 0
          /\ conns[i].prio <= Len(Priorities)

\* C2: is_switching is never left true while no switch task is running: every
\* way a switch task ends has released the flag.
C2_FlagClearWhenNoSwitchRuns ==
    player.is_switching_server =>
        \E t \in 1..MaxSwitches : switches[t].pc \notin ({"none"} \cup Terminated)

\* C3: a switch that connected its backend, with a client that stays connected
\* and answers and a backend that stays up, eventually ends with the flag clear
\* and the new backend attached as the server handle.
C3_SwitchTerminates ==
    \A t \in 1..MaxSwitches :
        (switches[t].pc = "drop_on") ~>
            \/ /\ switches[t].pc = "ok"
               /\ ~player.is_switching_server
               /\ \E b \in 1..MaxConns : b = switches[t].backend /\ conns[b].st = "attached"
            \/ client_handle.gone
            \/ client_handle.closed
            \/ \E b \in 1..MaxConns : b = switches[t].backend /\ conns[b].gone

\* C4: the exit hook of the backend a successful switch disconnected never starts
\* a fallback switch and never kicks the client.
C4_OldHookStaysQuiet ==
    [][\A t \in 1..MaxSwitches : \A i \in 1..MaxConns :
          (/\ switches[t].pc = "ok"
           /\ switches[t].old = i
           /\ ~conns[i].gone
           /\ ~client_handle.gone)
          => ~(conns[i].hook = "walk" /\ conns'[i].hook \in {"join", "kick"})]_vars

\* C8: wait_for_disconnect on the old server handle has returned only when the
\* writer task of that handle has exited.
C8_WaitReturnsAfterWriterExit ==
    \A t \in 1..MaxSwitches :
        (switches[t].pc \in PastWaitOld /\ switches[t].old # 0)
            => conns[switches[t].old].writer # "run"

\* C9: a registered player whose client writer task has exited is eventually out
\* of both maps with player_count back to what it was before it joined; the count
\* goes down once, and removal and decrement never precede the writer's exit.
C9_CleanupAfterWriterExit ==
    /\ [](/\ proxy.player_count \in {0, 1}
          /\ proxy.player_by_name = proxy.player_by_uuid
          /\ hnd.pc # "register" =>
                /\ proxy.player_count = (IF proxy.player_by_name THEN 1 ELSE 0)
                /\ ~proxy.player_by_name => client_handle.writer # "run")
    /\ [][proxy.player_count' < proxy.player_count
            => client_handle.writer # "run" /\ cleanup = "await"]_vars
    /\ (hnd.pc # "register" /\ client_handle.writer # "run")
          ~> (~proxy.player_by_name /\ ~proxy.player_by_uuid /\ proxy.player_count = 0)

\* the cleanup ran to its end after the writer was aborted
C9_PlayerRemoved ==
    /\ cleanup = "done"
    /\ client_handle.writer = "exited"
    /\ ~proxy.player_by_name
    /\ ~proxy.player_by_uuid
    /\ proxy.player_count = 0

\* a backend connection the proxy still holds: an EstablishedBackend owned by a
\* switch task or by handle(), or a handle whose reader or writer task runs
Open(i) ==
    \/ conns[i].st = "established"
    \/ conns[i].st = "attached" /\ (conns[i].writer = "run" \/ conns[i].read_task)

\* C10: once the client handle is closed, eventually no backend connection of the
\* player is open.
C10_BackendsClosedAfterClient ==
    client_handle.closed ~> (\A i \in 1..MaxConns : ~Open(i))

\* the switch tasks between the teardown of the old backend and the attach of the
\* new one
SwitchWindow ==
    {"wait_old", "state", "wait_game", "goto_config", "wait_config", "drop_off",
     "abort_reader", "attach"}

\* C11: current_server and server_handle are present together and absent
\* together; while a switch task is between the teardown of the old backend and
\* the attach of the new one both are absent; once the client handle is closed
\* and the cleanup has run both are absent.
C11_ServerPairFollowsPhase ==
    /\ (player.server_handle = 0) <=> (player.current_server = "none")
    /\ (\E t \in 1..MaxSwitches : switches[t].pc \in SwitchWindow /\ switches[t].old # 0)
          => (player.server_handle = 0 /\ player.current_server = "none")
    /\ (client_handle.closed /\ cleanup = "done")
          => (player.server_handle = 0 /\ player.current_server = "none")

\* C12: when the writer of the player's backend has exited with the client
\* connected and no switch in progress, the exit hook eventually leaves the player
\* on another attached backend or the client handle disconnected (kicked), unless
\* the client itself goes away.
C12_HookRestoresBackend ==
    \A i \in 1..MaxConns :
        (/\ conns[i].hook = "walk"
         /\ conns[i].prio = 1
         /\ player.server_handle = i
         /\ ~player.is_switching_server
         /\ ~client_handle.closed
         /\ ~client_handle.gone)
        ~> \/ client_handle.closed
           \/ client_handle.gone
           \/ \E j \in 1..MaxConns :
                 j # i /\ player.server_handle = j /\ conns[j].st = "attached"

\* C13: a switch task whose connect fails releases the flag and leaves the backend
\* connections, the client handle with its reader, server_handle and
\* current_server as they were; it then ends as a failure with the "Could not
\* connect" chat message queued on the client handle (when its writer still runs).
C13_ConnectFailureKeepsOldBackend ==
    [][\A t \in 1..MaxSwitches :
          /\ (switches[t].pc = "connect" /\ switches'[t].pc = "notify")
                => /\ ~player'.is_switching_server
                   /\ conns' = conns
                   /\ client_handle' = client_handle
                   /\ player'.server_handle = player.server_handle
                   /\ player'.current_server = player.current_server
          /\ (switches[t].pc = "notify" /\ switches'[t].pc # "notify")
                => /\ switches'[t].pc = "fail"
                   /\ client_handle.writer = "run" =>
                         client_handle'.chan =
                            Append(client_handle.chan, Cmd("Packet", FALSE, FALSE, "chat", 0))
                   /\ conns' = conns
                   /\ player' = player]_vars

\* the connection handles of the player
Handles == {client_handle} \cup {conns[i] : i \in {j \in 1..MaxConns : conns[j].st = "attached"}}

\* C16: disconnect is idempotent: the first call sets closed and aborts the writer
\* task and the reader task; a call on a closed handle changes nothing, whatever
\* the handle has become since, so a second call leaves what the first call left
C16_DisconnectIdempotent ==
    \A h \in Handles :
        /\ ~h.closed => /\ Disconnect(h).closed
                        /\ Disconnect(h).abort = (h.writer = "run")
                        /\ ~Disconnect(h).read_task
        /\ h.closed => Disconnect(h) = h
        /\ Disconnect(Disconnect(h)) = Disconnect(h)

\* a first call has closed the client handle and its writer has ended; a reader
\* was installed since, which a later call leaves as it is
C16_ClosedHandleWithNewReader ==
    /\ client_handle.closed /\ client_handle.writer = "exited"
    /\ client_handle.read_task
    /\ Disconnect(client_handle) = client_handle

\* C17: no Packet command is enqueued on a connection handle whose closed flag is
\* already true: a step that lengthens the channel of a closed handle adds no Packet
C17_NoPacketQueuedOnClosedHandle ==
    [][/\ (client_handle.closed /\ Len(client_handle'.chan) > Len(client_handle.chan))
            => client_handle'.chan[Len(client_handle'.chan)].type # "Packet"
       /\ \A i \in 1..MaxConns :
            conns[i].closed => conns'[i].chan <= conns[i].chan]_vars

\* C14: during established proxying a frame or codec error detected by a reader
\* leads to both handles being disconnected; for the backend half: once the reader
\* of the attached backend has left its loop on such an error while the client is
\* connected, the client handle is disconnected too (or the client has left)
C14_ReaderErrorClosesBothHalves ==
    \A i \in 1..MaxConns :
        (/\ conns[i].err /\ conns[i].st = "attached" /\ player.server_handle = i
         /\ client_handle.protocol_state = "Game"
         /\ ~client_handle.closed /\ ~client_handle.gone)
        ~> (conns[i].closed /\ (client_handle.closed \/ client_handle.gone))

WriterInit == WInit /\ PInit /\ RIdle /\ LIdle /\ SIdle /\ RegIdle /\ CodecIdle /\ ThrottleIdle /\ CommandIdle /\ OnlineIdle

WriterSpec == WriterInit /\ [][WNext]_vars

\* ------------------------------------------------------------ writer claims

\* C5: while the drop gate is set on the client writer, receiving a Packet command
\* with bypass = false writes nothing, removes just that command and leaves the
\* writer task running, so the commands queued behind it are still processed.
C5_GatedPacketKeepsWriterRunning ==
    [][(/\ wKind = "client" /\ wTask = "run" /\ wChan # <<>>
        /\ wRecv' = wRecv + 1
        /\ wDrop /\ Head(wChan).type = "Packet" /\ ~Head(wChan).bypass)
       => (wTask' = "run" /\ wWire' = wWire /\ wChan' = Tail(wChan))]_vars

\* a non-bypass packet is at the head of the channel of a running client writer
\* whose gate is set, with another command queued behind it
C5_GatedPacketAtHead ==
    /\ wKind = "client" /\ wTask = "run" /\ wDrop
    /\ Len(wChan) >= 2
    /\ Head(wChan).type = "Packet" /\ ~Head(wChan).bypass

\* C6: per writer task the frames reach the socket in the order in which their
\* commands were queued: the command numbers along the wire never decrease, and
\* every frame is one its command produces.
C6_WireInQueueOrder ==
    /\ \A i, j \in 1..Len(wWire) : i < j => wWire[i].n <= wWire[j].n
    /\ \A i \in 1..Len(wWire) :
          /\ wWire[i].n \in 1..Len(wLog)
          /\ wLog[wWire[i].n].type \in {"Packet", "BundleReceived", "StartConfig", "StartGame"}

\* two packets of different commands were written while a third command waited
C6_TwoPacketsWritten ==
    /\ Len(wWire) >= 2
    /\ wWire[1].n # wWire[Len(wWire)].n
    /\ wWire[1].frame = "packet" /\ wWire[Len(wWire)].frame = "packet"
    /\ wChan # <<>>

\* C7: sync() returns Ok only when every Packet command queued on the handle before
\* the Sync has been written; once the writer is gone every sync() has returned,
\* with Err unless its Sync had been received by the writer before.
C7_SyncOkAfterPacketsWritten ==
    /\ \A s \in wSyncOk :
          /\ wLog[s].type = "Sync"
          /\ \A k \in 1..(s - 1) :
                wLog[k].type = "Packet" => \E i \in 1..Len(wWire) : wWire[i].n = k
    /\ wSyncOk \cap wSyncErr = {}
    /\ wSyncErr \cap Pending = {}
    /\ wTask # "run" =>
          \A s \in 1..Len(wLog) : wLog[s].type = "Sync" => s \in wSyncOk \cup wSyncErr

\* one sync() returned Ok after a packet queued with the gate set or not, and a
\* later one returned Err because the writer went away first
C7_SyncOkAndSyncErr ==
    /\ \E s \in wSyncOk : \E k \in 1..(s - 1) : wLog[k].type = "Packet"
    /\ wSyncErr # {}
    /\ wTask # "run"

\* ================================================================ reader task claims
ReaderInit == WInit /\ wKind = "client" /\ PInit /\ RInit /\ LIdle /\ SIdle /\ RegIdle /\ CodecIdle /\ ThrottleIdle /\ CommandIdle /\ OnlineIdle

ReaderSpec == ReaderInit /\ [][RNext]_vars

\* C15: when the client half has received 2000 or more frames within less than
\* 1000 ms, wherever in the session, the reader has disconnected both its own
\* handle and its partner (frames read since the clock last moved arrived within
\* 0 ms)
C15_BurstDisconnectsBothHalves ==
    (reader.kind = "client" /\ reader.burst >= PacketLimit)
        => (reader.self_closed /\ reader.partner_closed)

\* the registry has no entry for the packet id of f in the reader's direction,
\* state and version
Unregistered(f) ==
    IF reader.kind = "client" THEN GetClientPacketType(reader.version, f.id) = "None"
    ELSE GetServerPacketType(reader.state, reader.version, f.id) = "None"

\* C18: during established proxying a frame whose packet id has no registry entry
\* is no error: while the partner's channel is open and the packet limit is not
\* hit, each such frame is forwarded unchanged, the loop goes on and neither the
\* own handle nor the partner is disconnected
C18_UnknownIdForwarded ==
    [][\A f \in PacketFrames, k \in Bursts :
          (/\ FramesArrive(f, k) /\ Unregistered(f)
           /\ rPartnerUp /\ reader.should_forward /\ reader'.cause # "rate")
          => /\ reader'.run /\ reader'.cause = "none"
             /\ reader'.out = reader.out + k /\ reader'.last = f
             /\ reader'.self_closed = reader.self_closed
             /\ reader'.partner_closed = reader.partner_closed]_vars

\* a backend reader has forwarded a frame with an id beyond the registry's range
\* and a client reader one with an unregistered id, and goes on
C18_UnknownIdWasForwarded ==
    /\ reader.run /\ reader.out > 0 /\ Unregistered(reader.last)
    /\ reader.last.id \notin 0..255
    /\ reader.kind = "backend"
    /\ ~reader.self_closed /\ ~reader.partner_closed

\* C19: once proxying is established no reader is disconnected because no frame
\* arrived for a long time: no reader leaves its loop on the read timeout
C19_NoTimeoutWhileProxying ==
    reader.cause # "timeout"

\* ===================================================================== login claims
LoginInit == WInit /\ wKind = "client" /\ PInit /\ RIdle /\ LInit /\ SIdle /\ RegIdle /\ CodecIdle /\ ThrottleIdle /\ CommandIdle /\ OnlineIdle

LoginSpec == LoginInit /\ [][LNext]_vars

\* the packets of a login that succeeds
Expected ==
    IF login.online_mode \/ login.offline_mode_encryption
    THEN <<"LoginRequest", "EncryptionResponse", "LoginAcknowledged">>
    ELSE <<"LoginRequest", "LoginAcknowledged">>

IsPrefix(a, b) == Len(a) <= Len(b) /\ a = SubSeq(b, 1, Len(a))

\* C20: handle_login returns ProxyingData only after exactly LoginRequest, then
\* EncryptionResponse iff online_mode or offline_mode_encryption, then
\* LoginAcknowledged; a packet out of this order, or any other packet id, ends the
\* login with an error
C20_LoginSequence ==
    /\ login.result = "ok" => login.seen = Expected
    /\ login.result = "none" => IsPrefix(login.seen, Expected) /\ login.seen # Expected
    /\ ~IsPrefix(login.seen, Expected) => login.result = "err"

\* a login with encryption has returned ProxyingData
C20_LoggedInWithEncryption ==
    /\ login.result = "ok" /\ Len(login.seen) = 3
    /\ ~login.online_mode /\ login.offline_mode_encryption

\* C21: every failure in the login state (invalid user name, packet out of order,
\* secret that does not decrypt or has the wrong length, verify token mismatch,
\* session verification refused, unknown packet id) has sent a Login-Disconnect to
\* the client when handle_login returns its error
C21_LoginFailureSendsDisconnect ==
    (/\ login.result = "err"
     /\ login.cause \in {"name", "order", "decrypt", "length", "token", "session", "id"})
        => login.told

\* =================================================================== status claims
StatusInit == WInit /\ wKind = "client" /\ PInit /\ RIdle /\ LIdle /\ SInit /\ RegIdle /\ CodecIdle /\ ThrottleIdle /\ CommandIdle /\ OnlineIdle

StatusSpec == StatusInit /\ [][SNext]_vars

\* C22: the status loop answers a status request and a ping in whichever order the
\* client sends them and ends after answering the ping: a ping sent first is
\* answered and ends the exchange, a request sent first is answered and the ping
\* after it is answered and ends the exchange
C22_StatusAnswersEitherOrder ==
    /\ \A t \in 0..MaxPing :
          (status.seen # <<>> /\ status.seen[1] = Ping(t))
              => (status.sent = <<<<"pong", t>>>> /\ status.result = "ok")
    /\ status.seen = <<StatusRequest>>
          => (status.sent = <<<<"response", status.version>>>> /\ status.result = "none")
    /\ \A t \in 0..MaxPing :
          status.seen = <<StatusRequest, Ping(t)>>
              => (/\ status.sent = <<<<"response", status.version>>, <<"pong", t>>>>
                  /\ status.result = "ok")

\* C23: finish_login sends SetCompression iff the configured threshold is >= 0, in
\* uncompressed framing and directly before LoginSuccess; LoginSuccess and every
\* frame written or read afterwards are in compressed framing, and no frame that
\* has no SetCompression before it is
C23_CompressionArmedBySetCompression ==
    LET w == login.wire
        IsSet(k) == w[k].type = "SetCompression"
    IN /\ \A k \in 1..Len(w) :
             w[k].type = "LoginSuccess" =>
                 ((k > 1 /\ IsSet(k - 1)) <=> login.config_threshold >= 0)
       /\ \A k \in 1..Len(w) :
             IsSet(k) => (/\ ~w[k].compressed
                          /\ k < Len(w) /\ w[k + 1].type = "LoginSuccess")
       /\ \A k \in 1..Len(w) :
             ~IsSet(k) => (w[k].compressed <=> \E j \in 1..(k - 1) : IsSet(j))

\* the part of handle() after the loop over the priorities
PastConnect == {"spawn", "kick", "kick_sync", "kick_wait", "attach", "install", "done",
                "panicked"}

\* C24: on player creation the backends are tried in priority order and labels
\* missing from the server list are skipped without a connect; the initial backend
\* is the first one that connects; if none does, the kick "No server found for you
\* to connect" is queued for the client (unless its writer has ended already) and
\* the client never gets a reader task
C24_InitialBackendByPriority ==
    LET n == Len(hnd.tried)
    IN /\ n <= Len(Priorities)
       /\ \A k \in 1..n :
             /\ hnd.tried[k].label = Priorities[k]
             /\ hnd.tried[k].outcome = "missing" <=> Priorities[k] \notin Servers
             /\ hnd.tried[k].outcome = "ok" => k = n
       /\ (hnd.pc \in PastConnect /\ hnd.backend # 0)
             => /\ n > 0 /\ hnd.tried[n].outcome = "ok"
                /\ conns[hnd.backend].label = hnd.tried[n].label
       /\ (hnd.pc \in PastConnect /\ hnd.backend = 0)
             => /\ n = Len(Priorities)
                /\ \A k \in 1..n : hnd.tried[k].outcome # "ok"
                /\ ~client_handle.read_task
                /\ hnd.pc \notin {"attach", "install", "panicked"}
                /\ hnd.pc \in {"kick_sync", "kick_wait", "done"}
                      => \/ hnd.kicked = "queued"
                         \/ hnd.kicked = "refused" /\ client_handle.writer # "run"

\* no backend connected: the kick was queued and handle() has returned
C24_KickedWithoutBackend ==
    /\ hnd.pc = "done" /\ hnd.backend = 0 /\ hnd.kicked = "queued"
    /\ hnd.tried = <<Tried("void", "missing"), Tried("lobby", "failed")>>

\* C25: when a backend reader whose handle is in Game reads a Kick that decodes, it
\* queues one SystemChatMessage with pos 0 on the client handle (whose channel is
\* open), does not forward the Kick, disconnects neither handle and reads on
C25_KickBecomesChat ==
    [][\A f \in PacketFrames, k \in Bursts :
          (/\ FramesArrive(f, k)
           /\ reader.kind = "backend" /\ reader.state = "Game"
           /\ GetServerPacketType(reader.state, reader.version, f.id) = "Kick"
           /\ f.ok /\ rPartnerUp)
          => /\ reader'.chat = reader.chat + k
             /\ reader'.out = reader.out
             /\ reader'.run /\ reader'.cause = "none"
             /\ reader'.self_closed = reader.self_closed
             /\ reader'.partner_closed = reader.partner_closed]_vars

\* a backend reader in Game has turned a Kick into a chat message and reads on
C25_KickWasSwallowed ==
    /\ reader.kind = "backend" /\ reader.state = "Game"
    /\ reader.chat = 1 /\ reader.out = 0
    /\ reader.run /\ ~reader.partner_closed /\ ~reader.self_closed

\* ================================================================= registry claims
RegistryInit == WInit /\ wKind = "client" /\ PInit /\ RIdle /\ LIdle /\ SIdle /\ RegInit /\ CodecIdle /\ ThrottleIdle /\ CommandIdle /\ OnlineIdle

RegistrySpec == RegistryInit /\ [][RegNext]_vars

\* C26: for every supported version, every protocol state and every semantic
\* packet type the registry has a wire id, and the look-up of that wire id for the
\* same state and version gives the type back
C26_RegistryRoundTrip ==
    lookup.done => (lookup.id # -1 /\ lookup.back = lookup.type)

\* C26, amended: the registry has a wire id for a supported version, a protocol
\* state and a semantic packet type exactly when a begin! entry of that state and
\* type starts at or below the version; the look-up of that wire id for the same
\* state and version gives the type back, and without a wire id there is nothing to
\* look up
C26_RoundTripWhereRegistered ==
    lookup.done =>
        /\ lookup.id # -1 <=>
               \E k \in 1..Len(Entries) :
                   /\ Entries[k].side = lookup.side /\ Entries[k].state = lookup.state
                   /\ Entries[k].type = lookup.type /\ Entries[k].ver <= lookup.version
        /\ lookup.id # -1 => lookup.back = lookup.type
        /\ lookup.id = -1 => lookup.back = "None"

\* the wire id of Kick in Game was looked up for 1.20.5 and led back to Kick
C26_KickLookedUp ==
    /\ lookup.done /\ lookup.side = "Server" /\ lookup.state = "Game"
    /\ lookup.version = R1_20_5 /\ lookup.type = "Kick"
    /\ lookup.id = 29 /\ lookup.back = "Kick"

\* ==================================================================== codec claims
CodecStart ==
    WInit /\ wKind = "client" /\ PInit /\ RIdle /\ LIdle /\ SIdle /\ RegIdle /\ CodecInit /\ ThrottleIdle
    /\ CommandIdle /\ OnlineIdle

CodecSpec == CodecStart /\ [][CodecNext]_vars

\* C27: for every payload, the empty one included, and every threshold >= 0,
\* decompress of what compress made of the payload succeeds and yields exactly the
\* payload
C27_CompressRoundTrip ==
    codec.phase = "read" => (codec.result = "ok" /\ codec.dest = codec.payload)

\* C28: decompress of a compressed frame (data-length not 0) succeeds when the
\* inflated payload has at most 8 MiB, exactly 8 MiB included, and fails with the
\* exceeded-length error when it has more
C28_CeilingInclusive ==
    (codec.phase = "read" /\ codec.frame.data_length # 0)
        => /\ codec.payload.len <= SizeLimit => codec.result = "ok"
           /\ codec.payload.len > SizeLimit => codec.result = "exceeded"

\* ================================================================= listener claims
ThrottleStart ==
    /\ WInit /\ wKind = "client" /\ PInit /\ RIdle /\ LIdle /\ SIdle /\ RegIdle /\ CodecIdle
    /\ ThrottleInit /\ CommandIdle /\ OnlineIdle

ThrottleSpec == ThrottleStart /\ [][ThrottleNext]_vars

\* C29: a connection is handed to the initial handler iff the number of
\* connections of its address in the current throttle window, this one included,
\* does not exceed connection_throttle_limit; otherwise it is dropped, until the
\* window rolls
C29_ThrottlePerWindow ==
    throttle.last # NoAccept =>
        (throttle.last.handed <=> throttle.last.n <= throttle.limit)

\* C40: the u8 counter of an address never overflows: the addition neither panics
\* the accept task nor wraps, so an address with more than 255 connections in the
\* window is not handed on before the window rolls.
C40_CounterNeverOverflows ==
    /\ throttle.task # "panicked"
    /\ throttle.last.n > 255 => ~throttle.last.handed

\* ================================================================= command claims
CommandStart ==
    /\ WInit /\ wKind = "client" /\ PInit /\ RIdle /\ LIdle /\ SIdle /\ RegIdle /\ CodecIdle
    /\ ThrottleIdle /\ CommandInit /\ OnlineIdle

CommandSpec == CommandStart /\ [][CommandNext]_vars

\* C39: every UnsignedClientCommand is executed by the command registry or
\* forwarded to the backend: when handle_packet swallows a line, execute on that
\* line finds and runs a command, also for lines with leading whitespace or with
\* whitespace other than the space.
C39_CommandExecutedOrForwarded ==
    command.done => (command.forward \/ command.executed)

\* ============================================================== lookup map claims
OnlineStart ==
    /\ WInit /\ wKind = "client" /\ PInit /\ RIdle /\ LIdle /\ SIdle /\ RegIdle /\ CodecIdle
    /\ ThrottleIdle /\ CommandIdle /\ OnlineInit

OnlineSpec == OnlineStart /\ [][OnlineNext]_vars

\* the logins a map holds an entry of
InMap(map) == {p \in Logins : \E k \in DOMAIN map : map[k] = p}

\* C35: whenever no registration and no cleanup holds the map locks, player_by_name
\* and player_by_uuid hold entries of the same players and player_count is their
\* number; the cleanup of a player removes no entry of another player.
C35_MapsAgree ==
    /\ [](online.lock = 0 =>
            /\ InMap(online.by_name) = InMap(online.by_uuid)
            /\ online.player_count = Cardinality(InMap(online.by_name)))
    /\ [][\A p \in Logins : LeaveRemoves(p) =>
             /\ InMap(online'.by_name) = InMap(online.by_name) \ {p}
             /\ InMap(online'.by_uuid) = InMap(online.by_uuid) \ {p}]_vars

\* two players were registered, one of them has left and was cleaned up
C35_OneLeftOneStays ==
    /\ online.lock = 0
    /\ online.player_count = 1
    /\ \E p, q \in Logins : online.pc[p] = "gone" /\ online.pc[q] = "registered"

\* a player with the uuid or the name, whatever its case, of login p has an entry
Present(p) ==
    \E q \in InMap(online.by_name) \cup InMap(online.by_uuid) :
        \/ online.ident[q].uuid = online.ident[p].uuid
        \/ ToAsciiLowercase(online.ident[q].name) = ToAsciiLowercase(online.ident[p].name)

\* C36: a login whose uuid or case-insensitive name has an entry in the maps is
\* kicked, is never inserted, leaves player_count alone, gets no cleanup task and
\* leaves the entries and the connection of the player already there untouched.
C36_DuplicateLoginKicked ==
    [][\A p \in Logins :
         /\ (LoginChecks(p) /\ Present(p)) =>
                /\ online'.pc[p] = "kick"
                /\ online'.by_name = online.by_name
                /\ online'.by_uuid = online.by_uuid
                /\ online'.player_count = online.player_count
                /\ online'.cleanup = online.cleanup
                /\ online'.closed = online.closed
         /\ LoginKicked(p) =>
                /\ online'.pc[p] = "kicked"
                /\ online'.by_name = online.by_name
                /\ online'.by_uuid = online.by_uuid
                /\ online'.player_count = online.player_count
                /\ online'.cleanup = online.cleanup
                /\ online'.closed = online.closed \cup {p}]_vars

\* a login was kicked as a duplicate of a player whose name differs in case only
C36_KickedForNameInOtherCase ==
    \E p, q \in Logins :
        /\ online.pc[p] = "kicked"
        /\ online.pc[q] = "registered"
        /\ online.ident[p].name # online.ident[q].name
        /\ online.ident[p].uuid # online.ident[q].uuid

\* ============================================================ switch protocol claims
\* C30: in a switch the new backend is attached to the client (begin_proxying) only
\* after the client has acknowledged the StartConfiguration that goto_config wrote
\* for this switch, and the client's protocol state is Config at that moment, also
\* when the ConfigurationAck of a reconfiguration started by the old backend was
\* read while is_switching_server was set.
C30_AttachAfterOwnConfigurationAck ==
    [][\A t \in 1..MaxSwitches :
          SwitchAttach(t) => /\ client_handle.acked
                             /\ client_handle.protocol_state = "Config"]_vars

\* C31: when the client reader reads a ConfigurationAck the client's protocol state
\* becomes Config; while is_switching_server is set config_ack_notify is fired and
\* nothing is queued on the backend, otherwise config_ack_notify is left alone and
\* the packet is queued on the partner the reader still forwards to.
C31_ConfigurationAckSwallowedIffSwitching ==
    [][(/\ ClientRead
        /\ Head(client_handle.inbox) = "ConfigurationAck"
        /\ client_handle.protocol_state = "Game")
       => /\ client_handle'.protocol_state = "Config"
          /\ IF player.is_switching_server
             THEN player'.config_ack_notify /\ conns' = conns
             ELSE /\ player'.config_ack_notify = player.config_ack_notify
                  /\ LET p == client_handle.partner
                     IN (client_handle.should_forward /\ conns[p].writer = "run")
                            => conns'[p].chan = conns[p].chan + 1]_vars

\* a ConfigurationAck was read during a switch: the waiter of the switch has been
\* notified, the client is in Config and the backend's channel holds nothing
C31_AckSwallowedInSwitch ==
    /\ player.is_switching_server
    /\ player.config_ack_notify
    /\ client_handle.protocol_state = "Config"
    /\ client_handle.read_task
    /\ conns[client_handle.partner].chan = 0

\* C32: every reader task installed on the client half, the one of handle() and
\* the one of every switch, runs with the packet limiter enabled.
C32_ClientReaderRateLimited ==
    client_handle.read_task => client_handle.packet_limit

\* C33: a player is in the two lookup maps and counted in player_count only after
\* its initial backend has been attached; a client no priority backend accepts
\* never appears in the maps or in the count.
C33_RegisteredAfterAttach ==
    (proxy.player_by_name \/ proxy.player_by_uuid \/ proxy.player_count > 0)
        => hnd.pc \in {"install", "done", "panicked"}

\* C34: where a packet type has no wire id for the state and version at hand no
\* packet is built or queued and nothing panics: send_message of a switch whose
\* connect failed does nothing while the client is in Config.
C34_SendMessageNoOpWhereUnregistered ==
    [][\A t \in 1..MaxSwitches :
          (SwitchNotify(t) /\ client_handle.protocol_state # "Game")
              => /\ switches'[t].pc # "panic"
                 /\ client_handle'.chan = client_handle.chan]_vars

\* C37: spawn_read_task is never called while a read task is installed on the
\* client half, whatever the interleaving of handle(), switch tasks and exit hooks.
C37_ReadTaskSpawnedOnce ==
    [][/\ HInstall => ~client_handle.read_task
       /\ \A t \in 1..MaxSwitches :
             SwitchSpawnReader(t) => ~client_handle.read_task]_vars

\* a switch has installed its own reader on the client half after the reader of
\* handle() had been installed and aborted
C37_SwitchInstalledSecondReader ==
    \E t \in 1..MaxSwitches :
        /\ switches[t].pc \in {"commit", "release", "ok"}
        /\ hnd.pc = "done"
        /\ client_handle.read_task
        /\ client_handle.partner = switches[t].backend

\* ================================================================== bundle claims
\* the player engine with backends that also open bundles
BundleNext ==
    \/ ProxyStep
    \/ ClientCloses
    \/ CommandSwitches
    \/ \E i \in 1..MaxConns : BackendForward(i) \/ BackendBundle(i) \/ BackendCloses(i)

BundleSpec == Init /\ [][BundleNext]_vars

\* C38: the client writer never receives StartGame while its in_bundle bit is set,
\* whatever the backends send, an unpaired bundle delimiter followed by a
\* reconfiguration started by the backend included, and whatever switch follows.
C38_NoStartGameInBundle ==
    ~(/\ client_handle.writer = "run"
      /\ client_handle.chan # <<>>
      /\ Head(client_handle.chan).type = "StartGame"
      /\ client_handle.bundle)

====
